---- MODULE Spec2Model ----
(***************************************************************************)
(* State-machine model of the EasyPod FunASR service                       *)
(* (src/resources/python/funasr_service.py): the model-handle manager, the *)
(* transcription task orchestrator and the download orchestrator.          *)
(*                                                                         *)
(* Python dicts are functions whose DOMAIN is the set of keys present;     *)
(* dict.update(u) is u @@ d.  Task progress is kept in hundredths          *)
(* (0.05 -> 5, 1.0 -> 100); download progress is kept in percent.          *)
(*                                                                         *)
(* The last part models the segment extractor of src/docs/funasr_demo.py   *)
(* (_segment_text with its sentence splitter and timestamp mapper) as      *)
(* operators applied to result records drawn from bounded sets.            *)
(***************************************************************************)
EXTENDS FiniteSets, Integers, Sequences, TLC

\* ------------------------------------------------------------------ bounds
MaxTasks == 1
MaxDownloads == 2
MaxStreamJobs == 1
MaxFiles == 2
MaxUnsizedBytes == 100
MaxEntries == 2
MaxWords == 5
MaxSentences == 3
MaxTextLen == 5

\* ------------------------------------------------------------ input domains
AsrModels == {"A", "B"}
InitRequests == {"i1"}
SubmitRequests == {"s1"}
TaskIds == 1..MaxTasks
AudioPath == "a.wav"
EmptyDict == [k \in {} |-> TRUE]
OptionPayloads ==
    { EmptyDict,
      ("spk_enable" :> TRUE),
      ("return_stamp" :> FALSE) }
DlWorkers == 1..MaxDownloads
DownloadIds == {"m1"}
Streams == {"st1"}
FileSizes == {0, 100, 200}
Chunks == {50, 100}
CoarseFileSizes == {0, 100}
CoarseChunks == {100}
ModelPath == "/cache/model"
GenerateOutcomes == {"ok", "empty", "TypeError", "error"}

NoneVal == "None"
ErrNotInitialized == "FunASR model is not initialized"
ErrNotInitializedNoSpk == "FunASR model(without spk) is not initialized"
ErrNoResults == "FunASR did not return any results for the provided audio"
ErrTypeError == "TypeError"
ErrGenerate == "generate failed"
ErrCancelledFor == "Download cancelled for model"
ErrCancelledByUser == "Download cancelled by user"
ErrFetch == "fetch failed"
ErrNotFound == "Model not found"

VARIABLES
    model_id,           \* STATE.model_id
    model,              \* STATE.model: the model a handle was loaded from, or None
    model_without_spk,  \* STATE.model_without_spk
    model_lock,         \* STATE.model_lock: the set of threads holding it
    tasks,              \* STATE.tasks: task id -> dict
    ipc, ipayload,      \* initialize requests: position and payload.asr_model
    spc, spayload,      \* transcribe requests: position and payload.options
    wpc,                \* _run_transcription threads: position
    wpayload,           \* payload.options of the thread's task
    wmodel,             \* local `model` of the thread
    wkwargs,            \* local `kwargs` of the thread
    wexc,               \* the exception in flight in the thread
    calls,              \* per task, the kwargs and the outcome of every model.generate call
    response,           \* the last response of /transcribe, /task, /download-model
                        \* or DELETE /download-model
    snapshot_download,  \* whether modelscope's snapshot_download was imported
    download_states,    \* STATE.download_states: model id -> dict
    download_cancel_flags, \* STATE.download_cancel_flags: model id -> bool
    dpc,                \* _run_model_download threads: position
    dmodel,             \* the thread's model_id
    dexc,               \* the exception in flight in the thread
    dfiles,             \* the thread's _ProgressCallbackInstance objects
    stpc,               \* _download_progress_stream generators: position
    stmodel,            \* the generator's model_id
    last_progress, last_status, \* the generator's locals
    events,             \* the events the generator has yielded
    cancelled,          \* history: the running threads whose job a cancel has hit
    res_item,           \* the result record handed to _segment_text
    extracted,          \* the call of _segment_text: position, returned list, exception
    map_args,           \* the arguments handed to _map_sentences_to_timestamps
    mapped,             \* that call: position, returned list, exception
    split_arg,          \* the text handed to _split_text_into_sentences
    split_out           \* that call: position, returned list

\* The extractor's variables; no action of the service touches them.
exVars == <<res_item, extracted, map_args, mapped, split_arg, split_out>>

taskVars == <<model_id, model, model_without_spk, model_lock, tasks, ipc, ipayload,
              spc, spayload, wpc, wpayload, wmodel, wkwargs, wexc, calls, response>>
taskVars_ == <<model_id, model, model_without_spk, model_lock, tasks, ipc, ipayload,
               spc, spayload, wpc, wpayload, wmodel, wkwargs, wexc, calls, exVars>>
dlVars == <<snapshot_download, download_states, download_cancel_flags, dpc, dmodel,
            dexc, dfiles, stpc, stmodel, last_progress, last_status, events, cancelled,
            exVars>>
vars == <<taskVars, dlVars>>
\* The download side's variables alone.
svcDlVars == <<snapshot_download, download_states, download_cancel_flags, dpc, dmodel,
               dexc, dfiles, stpc, stmodel, last_progress, last_status, events, cancelled>>

\* ----------------------------------------------------------------- helpers
Get(d, k, default) == IF k \in DOMAIN d THEN d[k] ELSE default
Update(d, u) == u @@ d
Pop(d, k) == [x \in DOMAIN d \ {k} |-> d[x]]
Put(f, k, v) == (k :> v) @@ f

InitThread(i) == <<"initialize", i>>
SubmitThread(s) == <<"transcribe", s>>
WorkerThread(t) == <<"worker", t>>

\* payload.options.get("spk_enable", False) == False
WithoutSpk(opts) == Get(opts, "spk_enable", FALSE) = FALSE

\* Mutant: only the speaker-aware handle is looked at, whatever the flag.
EnsureModelLoadedError_AnyFlag(without_spk) ==
    IF model = NoneVal THEN ErrNotInitialized ELSE NoneVal

\* _ensure_model_loaded: the error it raises, or None
EnsureModelLoadedError(without_spk) ==
    IF model = NoneVal /\ ~without_spk THEN ErrNotInitialized
    ELSE IF model_without_spk = NoneVal /\ without_spk THEN ErrNotInitializedNoSpk
    ELSE NoneVal

\* _ensure_model_loaded: the handle it returns
EnsureModelLoaded(without_spk) ==
    IF without_spk THEN model_without_spk ELSE model

PrepareGenerateKwargs(audio, opts) ==
    LET base == ("input" :> audio)
        k1 == IF "batch_size_s" \in DOMAIN opts
              THEN Put(base, "batch_size_s", opts["batch_size_s"]) ELSE base
        k2 == IF "batch_size_threshold_s" \in DOMAIN opts
              THEN Put(k1, "batch_size_threshold_s", opts["batch_size_threshold_s"])
              ELSE k1
        k3 == IF Get(opts, "sentence_timestamp", TRUE)
              THEN Put(k2, "sentence_timestamp", TRUE) ELSE k2
        k4 == IF Get(opts, "word_timestamp", FALSE)
              THEN Put(k3, "word_timestamp", TRUE) ELSE k3
        k5 == IF Get(opts, "return_stamp", TRUE)
              THEN Put(k4, "return_stamp", TRUE) ELSE k4
        k6 == IF Get(opts, "merge_vad", FALSE)
              THEN Put(k5, "merge_vad", TRUE) ELSE k5
    IN  IF "merge_length_s" \in DOMAIN opts
        THEN Put(k6, "merge_length_s", opts["merge_length_s"]) ELSE k6

\* -------------------------------------------------------------------- Init
InitTasks ==
    /\ model_id = NoneVal
    /\ model = NoneVal
    /\ model_without_spk = NoneVal
    /\ model_lock = {}
    /\ tasks = EmptyDict
    /\ ipc = [i \in InitRequests |-> "idle"]
    /\ ipayload = [i \in InitRequests |-> NoneVal]
    /\ spc = [s \in SubmitRequests |-> "idle"]
    /\ spayload = [s \in SubmitRequests |-> EmptyDict]
    /\ wpc = [t \in TaskIds |-> "none"]
    /\ wpayload = [t \in TaskIds |-> EmptyDict]
    /\ wmodel = [t \in TaskIds |-> NoneVal]
    /\ wkwargs = [t \in TaskIds |-> EmptyDict]
    /\ wexc = [t \in TaskIds |-> NoneVal]
    /\ calls = [t \in TaskIds |-> <<>>]
    /\ response = [op |-> "none"]

\* ------------------------------------------------- initialize (238-248)
\* `with STATE.model_lock:` entered by an /initialize request for model m.
InitAcquire(i, m) ==
    /\ ipc[i] = "idle"
    /\ model_lock = {}
    /\ model_lock' = {InitThread(i)}
    /\ ipc' = [ipc EXCEPT ![i] = "load1"]
    /\ ipayload' = [ipayload EXCEPT ![i] = m]
    /\ UNCHANGED <<dlVars, model_id, model, model_without_spk, tasks, spc, spayload, wpc,
                   wpayload, wmodel, wkwargs, wexc, calls, response>>

\* Mutant: the lock is taken without `with` and a failing load leaves it held.
InitLoad1_KeepLock(i) ==
    /\ ipc[i] = "load1"
    /\ \E ok \in BOOLEAN :
         IF ok
         THEN /\ model' = ipayload[i]
              /\ ipc' = [ipc EXCEPT ![i] = "load2"]
         ELSE /\ ipc' = [ipc EXCEPT ![i] = "idle"]
              /\ UNCHANGED model
    /\ UNCHANGED <<dlVars, model_id, model_without_spk, model_lock, tasks, ipayload, spc,
                   spayload, wpc, wpayload, wmodel, wkwargs, wexc, calls, response>>

\* Mutant: each load takes the lock on its own, released between the two.
InitLoad1_LockPerLoad(i) ==
    /\ ipc[i] = "load1"
    /\ \E ok \in BOOLEAN :
         IF ok
         THEN /\ model' = ipayload[i]
              /\ ipc' = [ipc EXCEPT ![i] = "load2"]
         ELSE /\ ipc' = [ipc EXCEPT ![i] = "idle"]
              /\ UNCHANGED model
    /\ model_lock' = {}
    /\ UNCHANGED <<dlVars, model_id, model_without_spk, tasks, ipayload, spc, spayload, wpc,
                   wpayload, wmodel, wkwargs, wexc, calls, response>>

\* STATE.model = _load_model(payload) (line 243); the load returns or raises, and
\* raising leaves the `with` block.
InitLoad1(i) ==
    /\ ipc[i] = "load1"
    /\ \E ok \in BOOLEAN :
         IF ok
         THEN /\ model' = ipayload[i]
              /\ ipc' = [ipc EXCEPT ![i] = "load2"]
              /\ UNCHANGED model_lock
         ELSE /\ model_lock' = {}
              /\ ipc' = [ipc EXCEPT ![i] = "idle"]
              /\ UNCHANGED model
    /\ UNCHANGED <<dlVars, model_id, model_without_spk, tasks, ipayload, spc, spayload, wpc,
                   wpayload, wmodel, wkwargs, wexc, calls, response>>

\* STATE.model_without_spk = _load_model(payload); STATE.model_id = ...
\* (lines 244-246); the lock is released on either exit.
InitLoad2(i) ==
    /\ ipc[i] = "load2"
    /\ \E ok \in BOOLEAN :
         IF ok
         THEN /\ model_without_spk' = ipayload[i]
              /\ model_id' = ipayload[i]
         ELSE UNCHANGED <<model_without_spk, model_id>>
    /\ model_lock' = {}
    /\ ipc' = [ipc EXCEPT ![i] = "idle"]
    /\ UNCHANGED <<dlVars, model, tasks, ipayload, spc, spayload, wpc, wpayload, wmodel,
                   wkwargs, wexc, calls, response>>

\* ------------------------------------------------- transcribe (251-265)
\* `with STATE.model_lock:` entered by a /transcribe request (line 253); until
\* the lock is free the request waits here.
SubmitAcquire(s, opts) ==
    /\ spc[s] = "idle"
    /\ Cardinality(DOMAIN tasks) < MaxTasks
    /\ model_lock = {}
    /\ model_lock' = {SubmitThread(s)}
    /\ spc' = [spc EXCEPT ![s] = "lookup"]
    /\ spayload' = [spayload EXCEPT ![s] = opts]
    /\ UNCHANGED <<dlVars, model_id, model, model_without_spk, tasks, ipc, ipayload,
                   wpc, wpayload, wmodel, wkwargs, wexc, calls, response>>

\* _ensure_model_loaded under the lock; the lock is released on either exit.
SubmitLookup(s) ==
    /\ spc[s] = "lookup"
    /\ model_lock' = {}
    /\ IF EnsureModelLoadedError(WithoutSpk(spayload[s])) # NoneVal
       THEN /\ spc' = [spc EXCEPT ![s] = "idle"]
            /\ response' = [op |-> "transcribe", code |-> 500]
       ELSE /\ spc' = [spc EXCEPT ![s] = "create"]
            /\ UNCHANGED response
    /\ UNCHANGED <<dlVars, model_id, model, model_without_spk, tasks, ipc, ipayload, spayload,
                   wpc, wpayload, wmodel, wkwargs, wexc, calls>>

\* task_id = uuid4(); STATE.tasks[task_id] = queued entry; thread.start().
SubmitCreate(s) ==
    /\ spc[s] = "create"
    /\ LET task_id == Cardinality(DOMAIN tasks) + 1 IN
         /\ task_id \in TaskIds
         /\ tasks' = Put(tasks, task_id, [status |-> "queued", progress |-> 0])
         /\ wpc' = [wpc EXCEPT ![task_id] = "start"]
         /\ wpayload' = [wpayload EXCEPT ![task_id] = spayload[s]]
         /\ response' = [op |-> "transcribe", code |-> 200, task_id |-> task_id,
                         status |-> "queued"]
    /\ spc' = [spc EXCEPT ![s] = "idle"]
    /\ UNCHANGED <<dlVars, model_id, model, model_without_spk, model_lock, ipc, ipayload,
                   spayload, wmodel, wkwargs, wexc, calls>>

\* ------------------------------------------ _run_transcription (183-226)
\* STATE.tasks[task_id]["status"] = "processing"  (line 187)
WSetStatus(t) ==
    /\ wpc[t] = "start"
    /\ tasks' = [tasks EXCEPT ![t] = Put(@, "status", "processing")]
    /\ wpc' = [wpc EXCEPT ![t] = "progress"]
    /\ UNCHANGED <<dlVars, model_id, model, model_without_spk, model_lock, ipc, ipayload,
                   spc, spayload, wpayload, wmodel, wkwargs, wexc, calls, response>>

\* STATE.tasks[task_id]["progress"] = 0.05  (line 188)
WSetProgress(t) ==
    /\ wpc[t] = "progress"
    /\ tasks' = [tasks EXCEPT ![t] = Put(@, "progress", 5)]
    /\ wpc' = [wpc EXCEPT ![t] = "lock"]
    /\ UNCHANGED <<dlVars, model_id, model, model_without_spk, model_lock, ipc, ipayload,
                   spc, spayload, wpayload, wmodel, wkwargs, wexc, calls, response>>

\* with STATE.model_lock:  (line 191)
WAcquire(t) ==
    /\ wpc[t] = "lock"
    /\ model_lock = {}
    /\ model_lock' = {WorkerThread(t)}
    /\ wpc' = [wpc EXCEPT ![t] = "lookup"]
    /\ UNCHANGED <<dlVars, model_id, model, model_without_spk, tasks, ipc, ipayload,
                   spc, spayload, wpayload, wmodel, wkwargs, wexc, calls, response>>

\* model = _ensure_model_loaded(without_spk); the lock is released on either
\* exit; kwargs = _prepare_generate_kwargs(...)  (lines 192-194)
WLookup(t) ==
    /\ wpc[t] = "lookup"
    /\ model_lock' = {}
    /\ LET without_spk == WithoutSpk(wpayload[t])
           err == EnsureModelLoadedError(without_spk)
       IN IF err # NoneVal
          THEN /\ wexc' = [wexc EXCEPT ![t] = err]
               /\ wpc' = [wpc EXCEPT ![t] = "except"]
               /\ UNCHANGED <<wmodel, wkwargs>>
          ELSE /\ wmodel' = [wmodel EXCEPT ![t] = EnsureModelLoaded(without_spk)]
               /\ wkwargs' = [wkwargs EXCEPT ![t] =
                                PrepareGenerateKwargs(AudioPath, wpayload[t])]
               /\ wpc' = [wpc EXCEPT ![t] = "generate"]
               /\ UNCHANGED wexc
    /\ UNCHANGED <<dlVars, model_id, model, model_without_spk, tasks, ipc, ipayload,
                   spc, spayload, wpayload, calls, response>>

\* Mutant: the TypeError handler retries whether or not return_stamp was sent.
WGenerate_RetryAlways(t) ==
    /\ wpc[t] = "generate"
    /\ \E outcome \in GenerateOutcomes :
         /\ calls' = [calls EXCEPT ![t] =
                        Append(@, [kwargs |-> wkwargs[t], outcome |-> outcome])]
         /\ CASE outcome = "ok" ->
                /\ wpc' = [wpc EXCEPT ![t] = "store"]
                /\ UNCHANGED <<wkwargs, wexc>>
           [] outcome = "empty" ->
                /\ wexc' = [wexc EXCEPT ![t] = ErrNoResults]
                /\ wpc' = [wpc EXCEPT ![t] = "except"]
                /\ UNCHANGED wkwargs
           [] outcome = "TypeError" ->
                /\ wkwargs' = [wkwargs EXCEPT ![t] = Pop(@, "return_stamp")]
                /\ wpc' = [wpc EXCEPT ![t] = "retry"]
                /\ UNCHANGED wexc
           [] outcome = "error" ->
                /\ wexc' = [wexc EXCEPT ![t] = ErrGenerate]
                /\ wpc' = [wpc EXCEPT ![t] = "except"]
                /\ UNCHANGED wkwargs
    /\ UNCHANGED <<dlVars, model_id, model, model_without_spk, model_lock, tasks, ipc,
                   ipayload, spc, spayload, wpayload, wmodel, response>>

\* results = model.generate(**kwargs), with the TypeError handler  (196-207)
WGenerate(t) ==
    /\ wpc[t] = "generate"
    /\ \E outcome \in GenerateOutcomes :
         /\ calls' = [calls EXCEPT ![t] =
                        Append(@, [kwargs |-> wkwargs[t], outcome |-> outcome])]
         /\ CASE outcome = "ok" ->
                /\ wpc' = [wpc EXCEPT ![t] = "store"]
                /\ UNCHANGED <<wkwargs, wexc>>
           [] outcome = "empty" ->
                /\ wexc' = [wexc EXCEPT ![t] = ErrNoResults]
                /\ wpc' = [wpc EXCEPT ![t] = "except"]
                /\ UNCHANGED wkwargs
           [] outcome = "TypeError" ->
                IF "return_stamp" \in DOMAIN wkwargs[t]
                THEN /\ wkwargs' = [wkwargs EXCEPT ![t] = Pop(@, "return_stamp")]
                     /\ wpc' = [wpc EXCEPT ![t] = "retry"]
                     /\ UNCHANGED wexc
                ELSE /\ wexc' = [wexc EXCEPT ![t] = ErrTypeError]
                     /\ wpc' = [wpc EXCEPT ![t] = "except"]
                     /\ UNCHANGED wkwargs
           [] outcome = "error" ->
                /\ wexc' = [wexc EXCEPT ![t] = ErrGenerate]
                /\ wpc' = [wpc EXCEPT ![t] = "except"]
                /\ UNCHANGED wkwargs
    /\ UNCHANGED <<dlVars, model_id, model, model_without_spk, model_lock, tasks, ipc,
                   ipayload, spc, spayload, wpayload, wmodel, response>>

\* results = model.generate(**kwargs) inside `except TypeError`  (line 200)
WRetry(t) ==
    /\ wpc[t] = "retry"
    /\ \E outcome \in GenerateOutcomes :
         /\ calls' = [calls EXCEPT ![t] =
                        Append(@, [kwargs |-> wkwargs[t], outcome |-> outcome])]
         /\ CASE outcome = "ok" ->
                /\ wpc' = [wpc EXCEPT ![t] = "store"]
                /\ UNCHANGED wexc
           [] outcome = "empty" ->
                /\ wexc' = [wexc EXCEPT ![t] = ErrNoResults]
                /\ wpc' = [wpc EXCEPT ![t] = "except"]
           [] outcome = "TypeError" ->
                /\ wexc' = [wexc EXCEPT ![t] = ErrTypeError]
                /\ wpc' = [wpc EXCEPT ![t] = "except"]
           [] outcome = "error" ->
                /\ wexc' = [wexc EXCEPT ![t] = ErrGenerate]
                /\ wpc' = [wpc EXCEPT ![t] = "except"]
    /\ UNCHANGED <<dlVars, model_id, model, model_without_spk, model_lock, tasks, ipc,
                   ipayload, spc, spayload, wpayload, wmodel, wkwargs, response>>

\* The thread returns: its locals are gone.
ThreadExit(t) ==
    /\ wpayload' = [wpayload EXCEPT ![t] = EmptyDict]
    /\ wmodel' = [wmodel EXCEPT ![t] = NoneVal]
    /\ wkwargs' = [wkwargs EXCEPT ![t] = EmptyDict]
    /\ wexc' = [wexc EXCEPT ![t] = NoneVal]

\* Mutant: the completion log call after the update raises, so the handler of
\* line 222 runs on a task already marked completed.
WStore_ThenRaise(t) ==
    /\ wpc[t] = "store"
    /\ tasks' = [tasks EXCEPT ![t] =
                   Update(@, [status |-> "completed", progress |-> 100,
                              result |-> wmodel[t],
                              metadata |-> [model |-> model_id,
                                            options |-> wpayload[t]]])]
    /\ wpc' = [wpc EXCEPT ![t] = "except"]
    /\ wexc' = [wexc EXCEPT ![t] = ErrGenerate]
    /\ UNCHANGED <<dlVars, model_id, model, model_without_spk, model_lock, ipc, ipayload,
                   spc, spayload, wpayload, wmodel, wkwargs, calls, response>>

\* STATE.tasks[task_id].update({"status": "completed", ...})  (209-220).  The raw
\* record is named by the model whose handle produced it.
WStore(t) ==
    /\ wpc[t] = "store"
    /\ tasks' = [tasks EXCEPT ![t] =
                   Update(@, [status |-> "completed", progress |-> 100,
                              result |-> wmodel[t],
                              metadata |-> [model |-> model_id,
                                            options |-> wpayload[t]]])]
    /\ wpc' = [wpc EXCEPT ![t] = "done"]
    /\ ThreadExit(t)
    /\ UNCHANGED <<dlVars, model_id, model, model_without_spk, model_lock, ipc, ipayload,
                   spc, spayload, calls, response>>

\* except Exception: STATE.tasks[task_id].update({"status": "failed", ...})  (222-226)
WExcept(t) ==
    /\ wpc[t] = "except"
    /\ tasks' = [tasks EXCEPT ![t] =
                   Update(@, [status |-> "failed", error |-> wexc[t],
                              progress |-> 100])]
    /\ wpc' = [wpc EXCEPT ![t] = "done"]
    /\ ThreadExit(t)
    /\ UNCHANGED <<dlVars, model_id, model, model_without_spk, model_lock, ipc, ipayload,
                   spc, spayload, calls, response>>

\* --------------------------------------------------- get_task (268-273)
\* TaskResponse(**task): the fields of the entry, absent ones at their defaults.
TaskResponse(task) ==
    [status |-> task["status"],
     progress |-> Get(task, "progress", 0),
     error |-> Get(task, "error", NoneVal),
     result |-> Get(task, "result", NoneVal),
     metadata |-> Get(task, "metadata", EmptyDict)]

UnknownTaskId == 0

\* Mutant: a finished task is handed out once and then dropped from the map.
GetTask_Evicting(task_id) ==
    /\ response' = IF task_id \in DOMAIN tasks
                   THEN [op |-> "get_task", code |-> 200, task_id |-> task_id,
                         body |-> TaskResponse(tasks[task_id])]
                   ELSE [op |-> "get_task", code |-> 404, task_id |-> task_id]
    /\ tasks' = IF task_id \in DOMAIN tasks /\ tasks[task_id]["status"] \in {"completed", "failed"}
                THEN Pop(tasks, task_id) ELSE tasks
    /\ UNCHANGED <<dlVars, model_id, model, model_without_spk, model_lock, ipc,
                   ipayload, spc, spayload, wpc, wpayload, wmodel, wkwargs, wexc, calls>>

\* raise HTTPException(404) when the id is not in STATE.tasks, else TaskResponse(**task).
GetTask(task_id) ==
    /\ response' = IF task_id \in DOMAIN tasks
                   THEN [op |-> "get_task", code |-> 200, task_id |-> task_id,
                         body |-> TaskResponse(tasks[task_id])]
                   ELSE [op |-> "get_task", code |-> 404, task_id |-> task_id]
    /\ UNCHANGED <<dlVars, model_id, model, model_without_spk, model_lock, tasks, ipc,
                   ipayload, spc, spayload, wpc, wpayload, wmodel, wkwargs, wexc, calls>>

\* -------------------------------------------------------- download part
InitDownloads ==
    /\ snapshot_download \in BOOLEAN
    /\ download_states = EmptyDict
    /\ download_cancel_flags = EmptyDict
    /\ dpc = [w \in DlWorkers |-> "none"]
    /\ dmodel = [w \in DlWorkers |-> NoneVal]
    /\ dexc = [w \in DlWorkers |-> NoneVal]
    /\ dfiles = [w \in DlWorkers |-> <<>>]
    /\ stpc = [st \in Streams |-> "none"]
    /\ stmodel = [st \in Streams |-> NoneVal]
    /\ last_progress = [st \in Streams |-> -1]
    /\ last_status = [st \in Streams |-> NoneVal]
    /\ events = [st \in Streams |-> <<>>]
    /\ cancelled = {}

Min(a, b) == IF a <= b THEN a ELSE b
Max(a, b) == IF a >= b THEN a ELSE b

\* The state both download_model (446-451) and _download_model_sync (376-381) store.
FreshDownloadState(status) ==
    [status |-> status, progress |-> 0, downloaded_size |-> 0, total_size |-> 0]

StartedWorkers == {w \in DlWorkers : dpc[w] # "none"}

\* ------------------------------------------------ download_model (431-461)
\* The check of lines 437-439.
AlreadyDownloading(m) ==
    m \in DOMAIN download_states /\ Get(download_states[m], "status", NoneVal) = "downloading"

\* Mutant: the "already downloading" check is missing.
DownloadModel_NoCheck(m) ==
    LET w == Cardinality(StartedWorkers) + 1 IN
    /\ w \in DlWorkers
    /\ download_states' = Put(download_states, m, FreshDownloadState("pending"))
    /\ download_cancel_flags' = Put(download_cancel_flags, m, FALSE)
    /\ dpc' = [dpc EXCEPT ![w] = "start"]
    /\ dmodel' = [dmodel EXCEPT ![w] = m]
    /\ response' = [op |-> "download_model", model_id |-> m, success |-> TRUE]
    /\ UNCHANGED <<taskVars_, snapshot_download, dexc, dfiles, stpc, stmodel,
                   last_progress, last_status, events, cancelled>>

DownloadModel(m) ==
    IF AlreadyDownloading(m)
    THEN /\ response' = [op |-> "download_model", model_id |-> m, success |-> FALSE]
         /\ UNCHANGED <<taskVars_, snapshot_download, download_states,
                        download_cancel_flags, dpc, dmodel, dexc, dfiles, stpc, stmodel,
                        last_progress, last_status, events, cancelled>>
    ELSE LET w == Cardinality(StartedWorkers) + 1 IN
         /\ w \in DlWorkers
         /\ download_states' = Put(download_states, m, FreshDownloadState("pending"))
         /\ download_cancel_flags' = Put(download_cancel_flags, m, FALSE)
         /\ dpc' = [dpc EXCEPT ![w] = "start"]
         /\ dmodel' = [dmodel EXCEPT ![w] = m]
         /\ response' = [op |-> "download_model", model_id |-> m, success |-> TRUE]
         /\ UNCHANGED <<taskVars_, snapshot_download, dexc, dfiles, stpc, stmodel,
                        last_progress, last_status, events, cancelled>>

\* ------------------------------------------- _run_model_download (423-428)
\* _download_model_sync up to the `try` (lines 371-383); an exception raised here
\* is only logged by _run_model_download.
DSyncBegin(w) ==
    /\ dpc[w] = "start"
    /\ IF ~snapshot_download
       THEN /\ dpc' = [dpc EXCEPT ![w] = "done"]
            /\ UNCHANGED download_states
       ELSE /\ download_states' =
                 Put(download_states, dmodel[w], FreshDownloadState("downloading"))
            /\ dpc' = [dpc EXCEPT ![w] = "fetching"]
    /\ UNCHANGED <<taskVars_, response, snapshot_download, download_cancel_flags, dmodel,
                   dexc, dfiles, stpc, stmodel, last_progress, last_status, events, cancelled>>

\* The thread returns: its locals and callback instances are gone.
DThreadExit(w) ==
    /\ dfiles' = [dfiles EXCEPT ![w] = <<>>]
    /\ dexc' = [dexc EXCEPT ![w] = NoneVal]
    /\ cancelled' = cancelled \ {w}

CallbackActive(w) == \E f \in DOMAIN dfiles[w] : dfiles[w][f].pc # "idle"

\* _DownloadProgressCallback.__call__ (359-366): the fetcher starts a file.
DFileStart(w, file_size) ==
    /\ dpc[w] = "fetching"
    /\ Len(dfiles[w]) < MaxFiles
    /\ dfiles' = [dfiles EXCEPT ![w] =
                    Append(@, [file_size |-> file_size, downloaded |-> 0, pc |-> "idle",
                               total_downloaded |-> 0, total_size |-> 0, progress |-> 0])]
    /\ UNCHANGED <<taskVars_, response, snapshot_download, download_states,
                   download_cancel_flags, dpc, dmodel, dexc, stpc, stmodel,
                   last_progress, last_status, events, cancelled>>

\* min(99.0, (total_downloaded / total_size * 100) if total_size > 0 else 50.0).
\* The quotient is never below 1 here (total_size <= total_downloaded in every
\* state), so the integer quotient loses nothing under the cap.
ProgressPercent(total_downloaded, total_size) ==
    Min(99, IF total_size > 0 THEN (total_downloaded * 100) \div total_size ELSE 50)

\* The server never sends more than the file's size; an unsized file is cut at
\* MaxUnsizedBytes.
FileLimit(inst) == IF inst.file_size > 0 THEN inst.file_size ELSE MaxUnsizedBytes

\* Mutant: the running total is taken from the file's own counter.
DUpdateRead_PerFile(w, f, n) ==
    /\ dpc[w] = "fetching"
    /\ f \in DOMAIN dfiles[w]
    /\ dfiles[w][f].pc = "idle"
    /\ dfiles[w][f].downloaded + n <= FileLimit(dfiles[w][f])
    /\ IF Get(download_cancel_flags, dmodel[w], FALSE)
       THEN /\ dexc' = [dexc EXCEPT ![w] = ErrCancelledFor]
            /\ dpc' = [dpc EXCEPT ![w] = "except"]
            /\ UNCHANGED dfiles
       ELSE LET current_state == Get(download_states, dmodel[w], EmptyDict)
                total_downloaded == dfiles[w][f].downloaded + n
                known == Get(current_state, "total_size", 0)
                total_size == IF dfiles[w][f].file_size > 0
                              THEN Max(known, total_downloaded) ELSE known
            IN /\ dfiles' = [dfiles EXCEPT ![w][f] =
                               [@ EXCEPT !.downloaded = @ + n, !.pc = "write",
                                         !.total_downloaded = total_downloaded,
                                         !.total_size = total_size,
                                         !.progress =
                                            ProgressPercent(total_downloaded, total_size)]]
               /\ UNCHANGED <<dexc, dpc>>
    /\ UNCHANGED <<taskVars_, response, snapshot_download, download_states,
                   download_cancel_flags, dmodel, stpc, stmodel, last_progress,
                   last_status, events, cancelled>>

\* _ProgressCallbackInstance.update, lines 292-314: the cancel check, the read of
\* the shared state and the local computation.
DUpdateRead(w, f, n) ==
    /\ dpc[w] = "fetching"
    /\ f \in DOMAIN dfiles[w]
    /\ dfiles[w][f].pc = "idle"
    /\ dfiles[w][f].downloaded + n <= FileLimit(dfiles[w][f])
    /\ IF Get(download_cancel_flags, dmodel[w], FALSE)
       THEN /\ dexc' = [dexc EXCEPT ![w] = ErrCancelledFor]
            /\ dpc' = [dpc EXCEPT ![w] = "except"]
            /\ UNCHANGED dfiles
       ELSE LET current_state == Get(download_states, dmodel[w], EmptyDict)
                total_downloaded == Get(current_state, "downloaded_size", 0) + n
                known == Get(current_state, "total_size", 0)
                total_size == IF dfiles[w][f].file_size > 0
                              THEN Max(known, total_downloaded) ELSE known
            IN /\ dfiles' = [dfiles EXCEPT ![w][f] =
                               [@ EXCEPT !.downloaded = @ + n, !.pc = "write",
                                         !.total_downloaded = total_downloaded,
                                         !.total_size = total_size,
                                         !.progress =
                                            ProgressPercent(total_downloaded, total_size)]]
               /\ UNCHANGED <<dexc, dpc>>
    /\ UNCHANGED <<taskVars_, response, snapshot_download, download_states,
                   download_cancel_flags, dmodel, stpc, stmodel, last_progress,
                   last_status, events, cancelled>>

\* _ProgressCallbackInstance.update, lines 317-323: the write back.
DUpdateWrite(w, f) ==
    /\ dpc[w] = "fetching"
    /\ f \in DOMAIN dfiles[w]
    /\ dfiles[w][f].pc = "write"
    /\ download_states' =
         [download_states EXCEPT ![dmodel[w]] =
            Update(@, [downloaded_size |-> dfiles[w][f].total_downloaded,
                       total_size |-> dfiles[w][f].total_size,
                       progress |-> dfiles[w][f].progress])]
    /\ dfiles' = [dfiles EXCEPT ![w][f].pc = "idle"]
    /\ UNCHANGED <<taskVars_, response, snapshot_download, download_cancel_flags, dpc,
                   dmodel, dexc, stpc, stmodel, last_progress, last_status, events, cancelled>>

\* snapshot_download returns; lines 398-404.
DFetchReturn(w) ==
    /\ dpc[w] = "fetching"
    /\ ~CallbackActive(w)
    /\ download_states' =
         [download_states EXCEPT ![dmodel[w]] =
            Update(@, [status |-> "completed", progress |-> 100,
                       download_path |-> ModelPath])]
    /\ dpc' = [dpc EXCEPT ![w] = "done"]
    /\ DThreadExit(w)
    /\ UNCHANGED <<taskVars_, response, snapshot_download, download_cancel_flags, dmodel,
                   stpc, stmodel, last_progress, last_status, events>>

\* snapshot_download raises by itself (network, disk).
DFetchRaise(w) ==
    /\ dpc[w] = "fetching"
    /\ ~CallbackActive(w)
    /\ dexc' = [dexc EXCEPT ![w] = ErrFetch]
    /\ dpc' = [dpc EXCEPT ![w] = "except"]
    /\ UNCHANGED <<taskVars_, response, snapshot_download, download_states,
                   download_cancel_flags, dmodel, dfiles, stpc, stmodel, last_progress,
                   last_status, events, cancelled>>

\* except Exception: lines 410-420.
DSyncExcept(w) ==
    /\ dpc[w] = "except"
    /\ download_states' =
         [download_states EXCEPT ![dmodel[w]] =
            Update(@, [status |-> "failed", error |-> dexc[w]])]
    /\ dpc' = [dpc EXCEPT ![w] = "done"]
    /\ DThreadExit(w)
    /\ UNCHANGED <<taskVars_, response, snapshot_download, download_cancel_flags, dmodel,
                   stpc, stmodel, last_progress, last_status, events>>

\* ----------------------------------------------- cancel_download (497-514)
\* Mutant: the cancel flag is set before the status check.
CancelDownload_FlagFirst(m) ==
    /\ download_cancel_flags' = Put(download_cancel_flags, m, TRUE)
    /\ IF m \notin DOMAIN download_states \/ download_states[m]["status"] # "downloading"
       THEN /\ response' = [op |-> "cancel_download", model_id |-> m, success |-> FALSE]
            /\ UNCHANGED <<download_states, cancelled>>
       ELSE /\ download_states' =
                 [download_states EXCEPT ![m] =
                    Update(@, [status |-> "failed", error |-> ErrCancelledByUser])]
            /\ response' = [op |-> "cancel_download", model_id |-> m, success |-> TRUE]
            /\ cancelled' = cancelled \cup
                               {w \in DlWorkers : dmodel[w] = m /\ dpc[w] = "fetching"}
    /\ UNCHANGED <<taskVars_, snapshot_download, dpc, dmodel, dexc, dfiles, stpc,
                   stmodel, last_progress, last_status, events>>

CancelDownload(m) ==
    IF m \notin DOMAIN download_states \/ download_states[m]["status"] # "downloading"
    THEN /\ response' = [op |-> "cancel_download", model_id |-> m, success |-> FALSE]
         /\ UNCHANGED <<taskVars_, snapshot_download, download_states,
                        download_cancel_flags, dpc, dmodel, dexc, dfiles, stpc, stmodel,
                        last_progress, last_status, events, cancelled>>
    ELSE /\ download_cancel_flags' = Put(download_cancel_flags, m, TRUE)
         /\ download_states' =
              [download_states EXCEPT ![m] =
                 Update(@, [status |-> "failed", error |-> ErrCancelledByUser])]
         /\ response' = [op |-> "cancel_download", model_id |-> m, success |-> TRUE]
         /\ cancelled' = cancelled \cup {w \in DlWorkers : dmodel[w] = m /\ dpc[w] = "fetching"}
         /\ UNCHANGED <<taskVars_, snapshot_download, dpc, dmodel, dexc, dfiles, stpc,
                        stmodel, last_progress, last_status, events>>

\* --------------------------------------- _download_progress_stream (517-554)
StreamOpen(st, m) ==
    /\ stpc[st] = "none"
    /\ stpc' = [stpc EXCEPT ![st] = "poll"]
    /\ stmodel' = [stmodel EXCEPT ![st] = m]
    /\ UNCHANGED <<taskVars_, response, snapshot_download, download_states,
                   download_cancel_flags, dpc, dmodel, dexc, dfiles, last_progress,
                   last_status, events, cancelled>>

\* Mutant: the generator stops on "completed" only.
StreamPoll_NoStopOnFailed(st) ==
    /\ stpc[st] = "poll"
    /\ IF stmodel[st] \notin DOMAIN download_states
       THEN /\ events' = [events EXCEPT ![st] = Append(@, [error |-> ErrNotFound])]
            /\ stpc' = [stpc EXCEPT ![st] = "ended"]
            /\ UNCHANGED <<last_progress, last_status>>
       ELSE LET state == download_states[stmodel[st]]
                current_progress == Get(state, "progress", 0)
                current_status == Get(state, "status", "pending")
            IN /\ IF current_progress # last_progress[st]
                     \/ current_status # last_status[st]
                  THEN /\ events' = [events EXCEPT ![st] =
                            Append(@, [status |-> current_status,
                                       progress |-> current_progress,
                                       error |-> Get(state, "error", NoneVal)])]
                       /\ last_progress' = [last_progress EXCEPT ![st] = current_progress]
                       /\ last_status' = [last_status EXCEPT ![st] = current_status]
                  ELSE UNCHANGED <<events, last_progress, last_status>>
               /\ stpc' = [stpc EXCEPT ![st] =
                             IF current_status = "completed" THEN "ended" ELSE "poll"]
    /\ UNCHANGED <<taskVars_, response, snapshot_download, download_states,
                   download_cancel_flags, dpc, dmodel, dexc, dfiles, stmodel, cancelled>>

\* One pass of the `while True` body; the generator then sleeps 0.5 s or ends.
StreamPoll(st) ==
    /\ stpc[st] = "poll"
    /\ IF stmodel[st] \notin DOMAIN download_states
       THEN /\ events' = [events EXCEPT ![st] = Append(@, [error |-> ErrNotFound])]
            /\ stpc' = [stpc EXCEPT ![st] = "ended"]
            /\ UNCHANGED <<last_progress, last_status>>
       ELSE LET state == download_states[stmodel[st]]
                current_progress == Get(state, "progress", 0)
                current_status == Get(state, "status", "pending")
            IN /\ IF current_progress # last_progress[st]
                     \/ current_status # last_status[st]
                  THEN /\ events' = [events EXCEPT ![st] =
                            Append(@, [status |-> current_status,
                                       progress |-> current_progress,
                                       error |-> Get(state, "error", NoneVal)])]
                       /\ last_progress' = [last_progress EXCEPT ![st] = current_progress]
                       /\ last_status' = [last_status EXCEPT ![st] = current_status]
                  ELSE UNCHANGED <<events, last_progress, last_status>>
               /\ stpc' = [stpc EXCEPT ![st] =
                             IF current_status \in {"completed", "failed"}
                             THEN "ended" ELSE "poll"]
    /\ UNCHANGED <<taskVars_, response, snapshot_download, download_states,
                   download_cancel_flags, dpc, dmodel, dexc, dfiles, stmodel, cancelled>>

\* ------------------------------------------- the segment extractor's values
\* Python values of a result record, one record shape per Python type.  A str
\* holding JSON is named by the value json.loads returns for it; text is a
\* sequence of characters.
PyNone == [none |-> TRUE]
PyNum(n) == [num |-> n]
PyStr(chars) == [str |-> chars]
PyList(items) == [list |-> items]
PyDict(d) == [dict |-> d]
PyJson(value) == [json |-> value]
PyBadJson == [badjson |-> TRUE]

IsNone(v) == DOMAIN v = {"none"}
IsNum(v) == DOMAIN v = {"num"}
IsStr(v) == DOMAIN v \in {{"str"}, {"json"}, {"badjson"}}
IsList(v) == DOMAIN v = {"list"}
IsDict(v) == DOMAIN v = {"dict"}

\* dict.get(key): None when the key is absent.
DictGet(d, key) == Get(d, key, PyNone)

\* float(x) of a whole number of seconds, and float(x) / 1000.0 of a whole number
\* of milliseconds: seconds with their thousandths.
Float(n) == [whole |-> n, milli |-> 0]
FloatDiv1000(n) == [whole |-> n \div 1000, milli |-> n % 1000]

Whitespace == {" "}
\* The four sentence-final marks of the pattern of line 241, written in ASCII.
SentencePunctuation == {".", "!", "?", ";"}

RECURSIVE LStripChars(_, _)
LStripChars(s, chars) ==
    IF Len(s) > 0 /\ s[1] \in chars THEN LStripChars(Tail(s), chars) ELSE s

RECURSIVE RStripChars(_, _)
RStripChars(s, chars) ==
    IF Len(s) > 0 /\ s[Len(s)] \in chars
    THEN RStripChars(SubSeq(s, 1, Len(s) - 1), chars) ELSE s

\* str.strip()
Strip(s) == RStripChars(LStripChars(s, Whitespace), Whitespace)

\* str.find(sub, start): the lowest 0-based index at or after start where sub
\* occurs, or -1.
Find(text, sub, start) ==
    LET found == {p \in start..(Len(text) - Len(sub)) :
                      SubSeq(text, p + 1, p + Len(sub)) = sub}
    IN  IF found = {} THEN -1 ELSE CHOOSE p \in found : \A q \in found : p <= q

\* re.split on the class of sentence-final marks: the pieces between the marks,
\* empty ones included.
RECURSIVE ReSplit(_)
ReSplit(text) ==
    LET marks == {p \in 1..Len(text) : text[p] \in SentencePunctuation} IN
    IF marks = {} THEN <<text>>
    ELSE LET p == CHOOSE m \in marks : \A q \in marks : m <= q
         IN  <<SubSeq(text, 1, p - 1)>> \o ReSplit(SubSeq(text, p + 1, Len(text)))

\* ------------------------------ _split_text_into_sentences (236-256)
\* The body of the loop for the piece at 0-based index i: the sentences it appends.
SplitPiece(text, sentences, i) ==
    LET sent == Strip(sentences[i + 1]) IN
    IF Len(sent) = 0 THEN <<>>
    ELSE IF i < Len(sentences) - 1
         THEN LET start_pos == Find(text, sent, 0)
                  end_pos == start_pos + Len(sent)
              IN  IF start_pos # -1 /\ end_pos < Len(text)
                       /\ text[end_pos + 1] \in SentencePunctuation
                  THEN <<Append(sent, text[end_pos + 1])>>
                  ELSE <<sent>>
         ELSE <<sent>>

RECURSIVE SplitLoop(_, _, _)
SplitLoop(text, sentences, i) ==
    IF i >= Len(sentences) THEN <<>>
    ELSE SplitPiece(text, sentences, i) \o SplitLoop(text, sentences, i + 1)

SplitTextIntoSentences(text) ==
    LET result == SplitLoop(text, ReSplit(text), 0)
    IN  IF Len(result) > 0 THEN result ELSE <<text>>

\* ---------------------------- _map_sentences_to_timestamps (259-318)
\* timestamps[idx][0] and timestamps[idx][-1] of a word span.
SpanStart(span) == span[1]
SpanEnd(span) == span[Len(span)]

Segment(text, start_sec, end_sec) ==
    [text |-> text, start_sec |-> start_sec, end_sec |-> end_sec]

\* MapProportional handing the remainder to the last sentences.
RECURSIVE MapProportional_BackLoaded(_, _, _, _)
MapProportional_BackLoaded(sentences, timestamps, i, timestamp_idx) ==
    IF i >= Len(sentences) THEN <<>>
    ELSE LET words_per_sentence == Len(timestamps) \div Len(sentences)
             remainder == Len(timestamps) % Len(sentences)
             words_for_this_sentence ==
                 words_per_sentence + (IF i >= Len(sentences) - remainder THEN 1 ELSE 0)
         IN  IF timestamp_idx < Len(timestamps)
             THEN LET start_ms == SpanStart(timestamps[timestamp_idx + 1])
                      end_idx == Min(timestamp_idx + words_for_this_sentence - 1,
                                     Len(timestamps) - 1)
                      end_ms == SpanEnd(timestamps[end_idx + 1])
                  IN  <<Segment(sentences[i + 1], FloatDiv1000(start_ms),
                                FloatDiv1000(end_ms))>>
                      \o MapProportional_BackLoaded(sentences, timestamps, i + 1,
                                         timestamp_idx + words_for_this_sentence)
             ELSE MapProportional_BackLoaded(sentences, timestamps, i + 1, timestamp_idx)

\* The loop of lines 281-303 from sentence i (0-based) on, timestamp_idx words
\* being used up.
RECURSIVE MapProportional(_, _, _, _)
MapProportional(sentences, timestamps, i, timestamp_idx) ==
    IF i >= Len(sentences) THEN <<>>
    ELSE LET words_per_sentence == Len(timestamps) \div Len(sentences)
             remainder == Len(timestamps) % Len(sentences)
             words_for_this_sentence ==
                 words_per_sentence + (IF i < remainder THEN 1 ELSE 0)
         IN  IF timestamp_idx < Len(timestamps)
             THEN LET start_ms == SpanStart(timestamps[timestamp_idx + 1])
                      end_idx == Min(timestamp_idx + words_for_this_sentence - 1,
                                     Len(timestamps) - 1)
                      end_ms == SpanEnd(timestamps[end_idx + 1])
                  IN  <<Segment(sentences[i + 1], FloatDiv1000(start_ms),
                                FloatDiv1000(end_ms))>>
                      \o MapProportional(sentences, timestamps, i + 1,
                                         timestamp_idx + words_for_this_sentence)
             ELSE MapProportional(sentences, timestamps, i + 1, timestamp_idx)

\* MapOneEach giving the sentences beyond the last word span that last span.
RECURSIVE MapOneEach_KeepAll(_, _, _)
MapOneEach_KeepAll(sentences, timestamps, i) ==
    IF i >= Len(sentences) THEN <<>>
    ELSE (IF Len(timestamps) > 0
          THEN LET idx == Min(i, Len(timestamps) - 1)
               IN  <<Segment(sentences[i + 1],
                             FloatDiv1000(SpanStart(timestamps[idx + 1])),
                             FloatDiv1000(SpanEnd(timestamps[idx + 1])))>>
          ELSE <<>>)
         \o MapOneEach_KeepAll(sentences, timestamps, i + 1)

\* The loop of lines 306-316: fewer timestamps than sentences.
RECURSIVE MapOneEach(_, _, _)
MapOneEach(sentences, timestamps, i) ==
    IF i >= Len(sentences) THEN <<>>
    ELSE (IF i < Len(timestamps)
          THEN <<Segment(sentences[i + 1],
                         FloatDiv1000(SpanStart(timestamps[i + 1])),
                         FloatDiv1000(SpanEnd(timestamps[i + 1])))>>
          ELSE <<>>)
         \o MapOneEach(sentences, timestamps, i + 1)

\* The character positions of lines 266-274 are computed and never read.
MapSentencesToTimestamps(sentences, timestamps, full_text) ==
    IF Len(timestamps) >= Len(sentences)
    THEN MapProportional(sentences, timestamps, 0, 0)
    ELSE MapOneEach(sentences, timestamps, 0)

\* ------------------------------------------------ _segment_text (155-233)
Skip == [kind |-> "skip"]
Raise(exc) == [kind |-> "raise", exc |-> exc]
Emit(seg) == [kind |-> "emit", seg |-> seg]

\* The segments appended by a loop, given what each pass did.
RECURSIVE Emitted(_)
Emitted(steps) ==
    IF Len(steps) = 0 THEN <<>>
    ELSE (IF steps[1].kind = "emit" THEN <<steps[1].seg>> ELSE <<>>)
         \o Emitted(Tail(steps))

\* One pass of the loop over sentence_info (lines 163-175).  .strip() exists on a
\* str only: on None it raises AttributeError.
SentenceInfoStep(sent) ==
    IF ~IsDict(sent) THEN Skip
    ELSE LET raw == Get(sent.dict, "text", PyStr(<<>>))
             start == DictGet(sent.dict, "start")
             end == DictGet(sent.dict, "end")
         IN  IF DOMAIN raw # {"str"} THEN Raise("AttributeError")
             ELSE IF Len(Strip(raw.str)) > 0 /\ ~IsNone(start) /\ ~IsNone(end)
                  THEN Emit(Segment(Strip(raw.str), Float(start.num), Float(end.num)))
                  ELSE Skip

\* json.loads of a str field, None on JSONDecodeError (lines 182-185, 209-212).
\* No text over the alphabet used here is valid JSON.
JsonLoads(v) == IF DOMAIN v = {"json"} THEN v.json ELSE PyNone

\* `x or ""` of a text field.
OrEmpty(v) == IF DOMAIN v = {"str"} THEN v.str ELSE <<>>

\* StampSentsStep skipping an entry only when both start and end are missing.
StampSentsStep_SkipBothMissing(sent) ==
    IF ~IsDict(sent) THEN Skip
    ELSE LET text_seg == OrEmpty(DictGet(sent.dict, "text_seg"))
             punc == OrEmpty(DictGet(sent.dict, "punc"))
             start == DictGet(sent.dict, "start")
             end == DictGet(sent.dict, "end")
         IN  IF IsNone(start) /\ IsNone(end) THEN Skip
             ELSE Emit(Segment(Strip(text_seg \o punc),
                               IF IsNone(start) THEN Float(0) ELSE FloatDiv1000(start.num),
                               IF IsNone(end) THEN Float(0) ELSE FloatDiv1000(end.num)))

\* One pass of the loop over stamp_sents (lines 188-202).
StampSentsStep(sent) ==
    IF ~IsDict(sent) THEN Skip
    ELSE LET text_seg == OrEmpty(DictGet(sent.dict, "text_seg"))
             punc == OrEmpty(DictGet(sent.dict, "punc"))
             start == DictGet(sent.dict, "start")
             end == DictGet(sent.dict, "end")
         IN  IF IsNone(start) \/ IsNone(end) THEN Skip
             ELSE Emit(Segment(Strip(text_seg \o punc), FloatDiv1000(start.num),
                               FloatDiv1000(end.num)))

\* Lines 160-177: what the sentence_info tier leaves in `segments`, or the
\* exception that ends the call.
SentenceInfoTier(record) ==
    LET sentence_info == DictGet(record, "sentence_info") IN
    IF IsList(sentence_info) /\ Len(sentence_info.list) > 0
    THEN LET steps == [k \in 1..Len(sentence_info.list) |->
                          SentenceInfoStep(sentence_info.list[k])]
         IN  IF \E k \in 1..Len(steps) : steps[k].kind = "raise"
             THEN [exc |-> "AttributeError", segments |-> <<>>]
             ELSE [exc |-> NoneVal, segments |-> Emitted(steps)]
    ELSE [exc |-> NoneVal, segments |-> <<>>]

\* Lines 180-202.  The items of an iterable that is not a list (the keys of a
\* dict, the characters of a str) are no dicts: every pass skips.
StampSentsTier(record) ==
    LET raw == DictGet(record, "stamp_sents")
        stamp_sents == IF IsStr(raw) THEN JsonLoads(raw) ELSE raw
    IN  IF IsList(stamp_sents)
        THEN Emitted([k \in 1..Len(stamp_sents.list) |->
                         StampSentsStep(stamp_sents.list[k])])
        ELSE <<>>

\* Lines 205-231.
TextTimestampTier(record) ==
    LET text == Strip(OrEmpty(DictGet(record, "text")))
        raw == DictGet(record, "timestamp")
        timestamp == IF IsStr(raw) THEN JsonLoads(raw) ELSE raw
    IN  IF IsList(timestamp) /\ Len(timestamp.list) > 0 /\ Len(text) > 0
        THEN LET sentences == SplitTextIntoSentences(text) IN
             IF Len(sentences) > 1
             THEN MapSentencesToTimestamps(sentences, timestamp.list, text)
             ELSE <<Segment(text,
                            FloatDiv1000(SpanStart(timestamp.list[1])),
                            FloatDiv1000(SpanEnd(timestamp.list[Len(timestamp.list)])))>>
        ELSE IF Len(text) > 0
             THEN <<Segment(text, Float(0), Float(0))>>
             ELSE <<>>

\* What the call does: the list it returns, or the exception it raises.
SegmentText(record) ==
    LET tier1 == SentenceInfoTier(record) IN
    IF tier1.exc # NoneVal \/ Len(tier1.segments) > 0 THEN tier1
    ELSE LET tier2 == StampSentsTier(record) IN
         [exc |-> NoneVal,
          segments |-> IF Len(tier2) > 0 THEN tier2 ELSE TextTimestampTier(record)]

\* ------------------------------------------------- result records drawn
Absent == [absent |-> TRUE]
Field(key, v) == IF v = Absent THEN EmptyDict ELSE (key :> v)
SeqsUpTo(S, n) == UNION {[1..k -> S] : k \in 0..n}

NotADict == PyStr(<<"x">>)

SentTexts ==
    {Absent, PyNone, PyStr(<<>>), PyStr(<<" ", "a", " ">>), PyStr(<<"b">>)}
SentSpans ==
    { <<PyNum(1), PyNum(2)>>, <<PyNum(0), PyNum(0)>>, <<PyNum(2), PyNum(1)>>,
      <<PyNone, PyNum(2)>>, <<PyNum(1), Absent>> }
SentEntries ==
    {NotADict} \cup
    { PyDict(Field("text", t) @@ Field("start", sp[1]) @@ Field("end", sp[2])) :
        t \in SentTexts, sp \in SentSpans }

StampSpans ==
    { <<PyNum(1000), PyNum(2000)>>, <<PyNum(2500), PyNum(4000)>>,
      <<PyNone, PyNum(2000)>>, <<PyNum(1000), Absent>> }
StampEntries ==
    {NotADict} \cup
    { PyDict(Field("text_seg", t) @@ Field("punc", p)
             @@ Field("start", sp[1]) @@ Field("end", sp[2])) :
        t \in {Absent, PyNone, PyStr(<<"a">>)},
        p \in {Absent, PyStr(<<".">>)},
        sp \in StampSpans }

\* Word k of a recognition: [0, 500], [600, 1000], [1100, 1500], ...
WordSpan(k) == <<IF k = 1 THEN 0 ELSE 500 * (k - 1) + 100, 500 * k>>
WordLists == {[k \in 1..n |-> WordSpan(k)] : n \in 0..MaxWords}

TextSamples ==
    { <<>>, <<" ">>, <<"a">>, <<" ", "a", " ">>, <<".">>,
      <<"a", ".", "b", "!">>, <<"a", ".", "a", "!">>, <<"a", ".", ".", "b">>,
      <<"a", ".", "b", "!", "c", "?">> }

SentenceInfoRecords ==
    { Field("sentence_info", v) :
        v \in {PyNone, PyNum(1)} \cup {PyList(l) : l \in SeqsUpTo(SentEntries, MaxEntries)} }

StampSentsRecords ==
    { Field("stamp_sents", v) :
        v \in {PyNone, PyNum(1), PyBadJson, PyJson(PyNum(1))}
              \cup {PyList(l) : l \in SeqsUpTo(StampEntries, MaxEntries)}
              \cup {PyJson(PyList(l)) : l \in SeqsUpTo(StampEntries, MaxEntries)} }

TextRecords ==
    { Field("text", t) @@ Field("timestamp", ts) :
        t \in {Absent, PyNone} \cup {PyStr(x) : x \in TextSamples},
        ts \in {Absent, PyNone, PyBadJson}
               \cup {PyList(w) : w \in WordLists}
               \cup {PyJson(PyList(w)) : w \in WordLists} }

\* Records carrying the fields of several tiers at once.
MixedRecords ==
    { Field("sentence_info", si) @@ Field("stamp_sents", ss)
        @@ Field("text", t) @@ Field("timestamp", ts) :
        si \in {Absent, PyList(<<>>), PyList(<<NotADict>>),
                PyList(<<PyDict([text |-> PyStr(<<"b">>), start |-> PyNum(1),
                                 end |-> PyNum(2)])>>)},
        ss \in {Absent, PyList(<<NotADict>>),
                PyList(<<PyDict([text_seg |-> PyStr(<<"a">>), start |-> PyNum(1000),
                                 end |-> PyNum(2000)])>>)},
        t \in {Absent, PyStr(<<"a", ".", "b", "!">>)},
        ts \in {Absent, PyList([k \in 1..2 |-> WordSpan(k)])} }

ResultRecords ==
    SentenceInfoRecords \cup StampSentsRecords \cup TextRecords \cup MixedRecords

\* ---------------------------------- inputs of the mapper and of the splitter
SentenceSamples == { <<"a", ".">>, <<"b", "!">>, <<"c">> }
SentenceLists == SeqsUpTo(SentenceSamples, MaxSentences)

RECURSIVE Concat(_)
Concat(seqs) == IF Len(seqs) = 0 THEN <<>> ELSE seqs[1] \o Concat(Tail(seqs))

TextAlphabet == {"a", "b", ".", "!", " "}
Texts == SeqsUpTo(TextAlphabet, MaxTextLen)

\* ------------------------------------------------------ the extractor's run
NotCalled == [pc |-> "idle", exc |-> NoneVal, segments |-> <<>>]
NoMapArgs == [sentences |-> <<>>, timestamps |-> <<>>, full_text |-> <<>>]
NotSplit == [pc |-> "idle", result |-> <<>>]

\* The service itself never calls the extractor.
InitExtractor ==
    /\ res_item = EmptyDict
    /\ extracted = NotCalled
    /\ map_args = NoMapArgs
    /\ mapped = NotCalled
    /\ split_arg = <<>>
    /\ split_out = NotSplit

\* _segment_text(res_item) runs to its return or to the exception it raises.
SegmentTextCall ==
    /\ extracted.pc = "called"
    /\ LET r == SegmentText(res_item) IN
         extracted' = [pc |-> IF r.exc # NoneVal THEN "raised" ELSE "returned",
                       exc |-> r.exc, segments |-> r.segments]
    /\ UNCHANGED <<taskVars, svcDlVars, res_item, map_args, mapped, split_arg, split_out>>

\* _map_sentences_to_timestamps(sentences, timestamps, full_text) runs to its
\* return; with no sentence at all, len(timestamps) >= 0 holds and the division
\* of line 277 raises ZeroDivisionError.
MapSentencesToTimestampsCall ==
    /\ mapped.pc = "called"
    /\ mapped' =
         IF Len(map_args.sentences) = 0
         THEN [pc |-> "raised", exc |-> "ZeroDivisionError", segments |-> <<>>]
         ELSE [pc |-> "returned", exc |-> NoneVal,
               segments |-> MapSentencesToTimestamps(map_args.sentences,
                                map_args.timestamps, map_args.full_text)]
    /\ UNCHANGED <<taskVars, svcDlVars, res_item, extracted, map_args, split_arg, split_out>>

\* _split_text_into_sentences(text) runs to its return.
SplitTextIntoSentencesCall ==
    /\ split_out.pc = "called"
    /\ split_out' = [pc |-> "returned", result |-> SplitTextIntoSentences(split_arg)]
    /\ UNCHANGED <<taskVars, svcDlVars, res_item, extracted, map_args, mapped, split_arg>>

\* ------------------------------------------------------- specifications
Init == InitTasks /\ InitDownloads /\ InitExtractor

\* The process with modelscope importable.
InitAvail == Init /\ snapshot_download = TRUE

\* The transcription side alone: the download side stays as constructed.
NextWorkers ==
    \/ \E i \in InitRequests, m \in AsrModels : InitAcquire(i, m)
    \/ \E i \in InitRequests : InitLoad1(i)
    \/ \E i \in InitRequests : InitLoad2(i)
    \/ \E s \in SubmitRequests, opts \in OptionPayloads : SubmitAcquire(s, opts)
    \/ \E s \in SubmitRequests : SubmitLookup(s)
    \/ \E s \in SubmitRequests : SubmitCreate(s)
    \/ \E t \in TaskIds : WSetStatus(t)
    \/ \E t \in TaskIds : WSetProgress(t)
    \/ \E t \in TaskIds : WAcquire(t)
    \/ \E t \in TaskIds : WLookup(t)
    \/ \E t \in TaskIds : WGenerate(t)
    \/ \E t \in TaskIds : WRetry(t)
    \/ \E t \in TaskIds : WStore(t)
    \/ \E t \in TaskIds : WExcept(t)

\* The requests and the worker threads, nobody polling.
SpecWorkers == InitAvail /\ [][NextWorkers]_vars

NextTasks ==
    \/ NextWorkers
    \/ \E id \in TaskIds \cup {UnknownTaskId} : GetTask(id)

SpecTasks == InitAvail /\ [][NextTasks]_vars

\* The requests and the worker threads, every task submitted with the default
\* options, alone and beside a polling client.
DefaultOptions == {EmptyDict}

NextDefault ==
    \/ \E i \in InitRequests, m \in AsrModels : InitAcquire(i, m)
    \/ \E i \in InitRequests : InitLoad1(i)
    \/ \E i \in InitRequests : InitLoad2(i)
    \/ \E s \in SubmitRequests, opts \in DefaultOptions : SubmitAcquire(s, opts)
    \/ \E s \in SubmitRequests : SubmitLookup(s)
    \/ \E s \in SubmitRequests : SubmitCreate(s)
    \/ \E t \in TaskIds : WSetStatus(t)
    \/ \E t \in TaskIds : WSetProgress(t)
    \/ \E t \in TaskIds : WAcquire(t)
    \/ \E t \in TaskIds : WLookup(t)
    \/ \E t \in TaskIds : WGenerate(t)
    \/ \E t \in TaskIds : WRetry(t)
    \/ \E t \in TaskIds : WStore(t)
    \/ \E t \in TaskIds : WExcept(t)

NextPolls ==
    \/ NextDefault
    \/ \E id \in TaskIds \cup {UnknownTaskId} : GetTask(id)

SpecPolls == InitAvail /\ [][NextPolls]_vars

\* The download side alone, the callbacks of a job running one after another.
\* A /download-model request, at most njobs of them accepted.
JobSubmit(m, njobs) ==
    /\ ~AlreadyDownloading(m) => Cardinality(StartedWorkers) < njobs
    /\ DownloadModel(m)

\* The fetcher starts one of at most nfiles files.
JobFileStart(w, file_size, nfiles) ==
    /\ Len(dfiles[w]) < nfiles
    /\ DFileStart(w, file_size)

\* The fetcher calls update(n) while no other callback of the job is running.
JobUpdate(w, f, n) ==
    /\ ~CallbackActive(w)
    /\ DUpdateRead(w, f, n)

NextJobs(sizes, chunks, nfiles, njobs) ==
    \/ \E m \in DownloadIds : JobSubmit(m, njobs)
    \/ \E w \in DlWorkers : DSyncBegin(w)
    \/ \E w \in DlWorkers, size \in sizes : JobFileStart(w, size, nfiles)
    \/ \E w \in DlWorkers, f \in 1..MaxFiles, n \in chunks : JobUpdate(w, f, n)
    \/ \E w \in DlWorkers, f \in 1..MaxFiles : DUpdateWrite(w, f)
    \/ \E w \in DlWorkers : DFetchReturn(w)
    \/ \E w \in DlWorkers : DFetchRaise(w)
    \/ \E w \in DlWorkers : DSyncExcept(w)
    \/ \E m \in DownloadIds : CancelDownload(m)

NextDownloads == NextJobs(CoarseFileSizes, CoarseChunks, 1, MaxDownloads)

\* One job with all its files and byte counts.
NextSingleJob == NextJobs(FileSizes, Chunks, MaxFiles, 1)

SpecSingleJob == InitAvail /\ [][NextSingleJob]_vars

\* One job whose files are fetched by several threads: update(n) of one file may
\* start while update(n) of another file is between its read and its write.
NextConcurrentJob ==
    \/ \E m \in DownloadIds : JobSubmit(m, 1)
    \/ \E w \in DlWorkers : DSyncBegin(w)
    \/ \E w \in DlWorkers, size \in FileSizes : JobFileStart(w, size, MaxFiles)
    \/ \E w \in DlWorkers, f \in 1..MaxFiles, n \in Chunks : DUpdateRead(w, f, n)
    \/ \E w \in DlWorkers, f \in 1..MaxFiles : DUpdateWrite(w, f)
    \/ \E w \in DlWorkers : DFetchReturn(w)
    \/ \E w \in DlWorkers : DFetchRaise(w)
    \/ \E w \in DlWorkers : DSyncExcept(w)
    \/ \E m \in DownloadIds : CancelDownload(m)

SpecConcurrentJob == InitAvail /\ [][NextConcurrentJob]_vars

\* The status stream beside the download side.
NextStream ==
    \/ NextJobs(CoarseFileSizes, CoarseChunks, 1, MaxStreamJobs)
    \/ \E st \in Streams, m \in DownloadIds : StreamOpen(st, m)
    \/ \E st \in Streams : StreamPoll(st)

SpecStream == Init /\ [][NextStream]_vars

SpecDownloads == Init /\ [][NextDownloads]_vars

\* The extractor alone: one call on each result record.
InitExtract ==
    /\ InitTasks
    /\ InitDownloads
    /\ snapshot_download = TRUE
    /\ res_item \in ResultRecords
    /\ extracted = [NotCalled EXCEPT !.pc = "called"]
    /\ map_args = NoMapArgs
    /\ mapped = NotCalled
    /\ split_arg = <<>>
    /\ split_out = NotSplit

NextExtract == SegmentTextCall

SpecExtract == InitExtract /\ [][NextExtract]_vars

\* The mapper alone: one call on each list of sentences and of word spans.
InitMap ==
    /\ InitTasks
    /\ InitDownloads
    /\ snapshot_download = TRUE
    /\ res_item = EmptyDict
    /\ extracted = NotCalled
    /\ \E sentences \in SentenceLists, timestamps \in WordLists :
           map_args = [sentences |-> sentences, timestamps |-> timestamps,
                       full_text |-> Concat(sentences)]
    /\ mapped = [NotCalled EXCEPT !.pc = "called"]
    /\ split_arg = <<>>
    /\ split_out = NotSplit

NextMap == MapSentencesToTimestampsCall

SpecMap == InitMap /\ [][NextMap]_vars

\* The splitter alone: one call on each text.
InitSplit ==
    /\ InitTasks
    /\ InitDownloads
    /\ snapshot_download = TRUE
    /\ res_item = EmptyDict
    /\ extracted = NotCalled
    /\ map_args = NoMapArgs
    /\ mapped = NotCalled
    /\ split_arg \in Texts
    /\ split_out = [NotSplit EXCEPT !.pc = "called"]

NextSplit == SplitTextIntoSentencesCall

SpecSplit == InitSplit /\ [][NextSplit]_vars

\* Fair scheduling of the threads: a started worker thread takes its next step,
\* a thread waiting for the lock gets it if it is free again and again, and
\* every call into the external runtime (load, generate) returns or raises.
WorkerStep(t) ==
    \/ WSetStatus(t) \/ WSetProgress(t) \/ WLookup(t) \/ WGenerate(t)
    \/ WRetry(t) \/ WStore(t) \/ WExcept(t)

FairTasks ==
    /\ \A t \in TaskIds : WF_vars(WorkerStep(t)) /\ SF_vars(WAcquire(t))
    /\ \A i \in InitRequests : WF_vars(InitLoad1(i) \/ InitLoad2(i))
    /\ \A s \in SubmitRequests : WF_vars(SubmitLookup(s) \/ SubmitCreate(s))

FairSpecTasks == InitAvail /\ [][NextWorkers]_vars /\ FairTasks

\* The same scheduling with every task submitted with the default options.
FairSpecDefault == InitAvail /\ [][NextDefault]_vars /\ FairTasks

\* ------------------------------------------------------------------ claims
TerminalStatuses == {"completed", "failed"}
TaskTransitions ==
    { <<"queued", "processing">>, <<"processing", "completed">>,
      <<"processing", "failed">> }

IsPoll == response.op = "get_task" /\ response.code = 200

\* C1: every task's status moves only Queued -> Processing -> Completed or
\* Queued -> Processing -> Failed; entries start Queued and are never removed;
\* once Completed or Failed, status and progress never change again, so a poll
\* that has seen a terminal status still agrees with the entry.
C1_TaskLifecycle ==
    [][ /\ \A t \in TaskIds :
             /\ t \in DOMAIN tasks => t \in DOMAIN tasks'
             /\ (t \notin DOMAIN tasks /\ t \in DOMAIN tasks')
                   => tasks'[t]["status"] = "queued"
             /\ t \in DOMAIN tasks =>
                   /\ \/ tasks'[t]["status"] = tasks[t]["status"]
                      \/ <<tasks[t]["status"], tasks'[t]["status"]>> \in TaskTransitions
                   /\ tasks[t]["status"] \in TerminalStatuses =>
                        /\ tasks'[t]["status"] = tasks[t]["status"]
                        /\ tasks'[t]["progress"] = tasks[t]["progress"]
        /\ (IsPoll /\ response.body.status \in TerminalStatuses) =>
             /\ tasks'[response.task_id]["status"] = response.body.status
             /\ tasks'[response.task_id]["progress"] = response.body.progress
      ]_vars

\* C1 witness: a task has reached a terminal status and a poll has returned it.
C1_Witness ==
    /\ IsPoll
    /\ response.body.status \in TerminalStatuses
    /\ tasks[response.task_id]["status"] = response.body.status

\* C2: under fair scheduling every accepted task eventually is Completed or Failed.
C2_TaskTerminates ==
    \A t \in TaskIds :
        (t \in DOMAIN tasks) ~> (t \in DOMAIN tasks /\ tasks[t]["status"] \in TerminalStatuses)

\* C2 witness: a task is terminal while a re-initialization is in progress.
C2_Witness ==
    \E t \in DOMAIN tasks :
        /\ tasks[t]["status"] \in TerminalStatuses
        /\ \E i \in InitRequests : ipc[i] # "idle"
        /\ model_id # NoneVal

\* C3: every poll of a task observes one of the four shapes: Queued/0/no
\* result/no error, Processing/0.05/no result/no error, Completed/1.0/result/no
\* error, Failed/1.0/error/no result.
PollShape(body) ==
    \/ /\ body.status = "queued" /\ body.progress = 0
       /\ body.result = NoneVal /\ body.error = NoneVal
    \/ /\ body.status = "processing" /\ body.progress = 5
       /\ body.result = NoneVal /\ body.error = NoneVal
    \/ /\ body.status = "completed" /\ body.progress = 100
       /\ body.result # NoneVal /\ body.error = NoneVal
    \/ /\ body.status = "failed" /\ body.progress = 100
       /\ body.result = NoneVal /\ body.error # NoneVal

C3_PollNeverTorn == IsPoll => PollShape(response.body)

\* An accepted download submission starts a thread.
SubmissionAccepted == StartedWorkers' # StartedWorkers

DownloadTransitions ==
    { <<"pending", "downloading">>, <<"downloading", "completed">>,
      <<"downloading", "failed">> }

\* C4: between two accepted submissions a model's download status moves only
\* Pending -> Downloading -> Completed or Pending -> Downloading -> Failed.
C4_DownloadLifecycle ==
    [][ \A m \in DownloadIds :
          (m \in DOMAIN download_states /\ ~SubmissionAccepted) =>
              \/ download_states'[m]["status"] = download_states[m]["status"]
              \/ <<download_states[m]["status"], download_states'[m]["status"]>>
                    \in DownloadTransitions
      ]_vars

\* C5: a download submission for a model that is Downloading is rejected, starts
\* no thread and leaves the download state and the cancel flag as they are.
C5_RejectWhileDownloading ==
    [][ \A m \in DownloadIds :
          (AlreadyDownloading(m) /\ DownloadModel(m)) =>
              /\ response' = [op |-> "download_model", model_id |-> m, success |-> FALSE]
              /\ UNCHANGED <<download_states, download_cancel_flags, dpc, dmodel>>
      ]_vars

\* C5 witness: a submission was rejected and the model is still Downloading.
C5_Witness ==
    /\ response.op = "download_model"
    /\ ~response.success
    /\ AlreadyDownloading(response.model_id)

\* C6: once a cancel has succeeded on a running job, that job's fetch takes in no
\* more bytes (its next callback raises), and the thread leaves the state Failed
\* with a cancellation message.
CancellationErrors == {ErrCancelledFor, ErrCancelledByUser}

C6_CancelAbortsNextCallback ==
    [][ \A w \in cancelled :
          /\ \A f \in DOMAIN dfiles[w] :
               dpc'[w] = "fetching" => dfiles'[w][f].downloaded = dfiles[w][f].downloaded
          /\ (dpc[w] = "except" /\ dexc[w] = ErrCancelledFor /\ dpc'[w] = "done") =>
               /\ download_states'[dmodel[w]]["status"] = "failed"
               /\ download_states'[dmodel[w]]["error"] \in CancellationErrors
      ]_vars

\* C7: a cancel for a model that is unknown, Pending, Completed or Failed returns a
\* failure and changes neither the download states nor the cancel flags.
C7_CancelNoEffect ==
    [][ \A m \in DownloadIds :
          (~AlreadyDownloading(m) /\ CancelDownload(m)) =>
              /\ response' = [op |-> "cancel_download", model_id |-> m, success |-> FALSE]
              /\ UNCHANGED <<download_states, download_cancel_flags>>
      ]_vars

\* C7 witness: a cancel failed on a model whose download had been Completed.
C7_Witness ==
    /\ response.op = "cancel_download"
    /\ ~response.success
    /\ response.model_id \in DOMAIN download_states
    /\ download_states[response.model_id]["status"] = "completed"

RECURSIVE SumDownloaded(_)
SumDownloaded(files) ==
    IF files = <<>> THEN 0
    ELSE files[1].downloaded + SumDownloaded(Tail(files))

\* The spec's example: files of 100 and 200 bytes, both fully reported.
ExampleFiles(files) ==
    /\ Len(files) = 2
    /\ files[1].file_size = 100 /\ files[1].downloaded = 100
    /\ files[2].file_size = 200 /\ files[2].downloaded = 200

\* C8: in one job whose callbacks run one after another, after every callback
\* downloaded_size is the sum of the increments of all files; files of 100 and
\* 200 bytes fully reported give 300 bytes at 99 percent, and completion keeps the
\* byte count and sets 100 percent.
C8_BytesAreSummed ==
    [][ \A w \in DlWorkers :
          /\ (dpc'[w] = "fetching" /\ ~CallbackActive(w)') =>
                /\ download_states'[dmodel[w]]["downloaded_size"] = SumDownloaded(dfiles'[w])
                /\ ExampleFiles(dfiles'[w]) =>
                      /\ download_states'[dmodel[w]]["downloaded_size"] = 300
                      /\ download_states'[dmodel[w]]["progress"] = 99
          /\ (dpc[w] = "fetching" /\ dpc'[w] = "done") =>
                /\ download_states'[dmodel[w]]["status"] = "completed"
                /\ download_states'[dmodel[w]]["downloaded_size"] = SumDownloaded(dfiles[w])
                /\ download_states'[dmodel[w]]["progress"] = 100
      ]_vars

\* C8 witness: both files of the example are fully reported, the job not yet done.
C8_Witness ==
    \E w \in DlWorkers :
        /\ dpc[w] = "fetching"
        /\ ExampleFiles(dfiles[w])
        /\ ~CallbackActive(w)
        /\ download_states[dmodel[w]]["downloaded_size"] = 300

\* C9: between two accepted submissions the progress percentage stays in 0..100,
\* never decreases, is at most 99 unless Completed and is 100 when Completed.
C9_ProgressMonotone ==
    [][ \A m \in DownloadIds :
          m \in DOMAIN download_states' =>
              /\ download_states'[m]["progress"] \in 0..100
              /\ download_states'[m]["status"] # "completed"
                    => download_states'[m]["progress"] <= 99
              /\ download_states'[m]["status"] = "completed"
                    => download_states'[m]["progress"] = 100
              /\ (m \in DOMAIN download_states /\ ~SubmissionAccepted)
                    => download_states'[m]["progress"] >= download_states[m]["progress"]
      ]_vars

IsErrorEvent(e) == DOMAIN e = {"error"}
IsTerminalEvent(e) == ~IsErrorEvent(e) /\ e.status \in TerminalStatuses

\* C10: a stream on a model with no download state at its first poll yields exactly
\* one error event; otherwise consecutive events differ in status or progress,
\* nothing follows a Completed or Failed event, and a stream that has ended ends
\* with a Completed or Failed event (or is the single error event).
StreamEventsOk(st) ==
    LET e == events[st] IN
    /\ \A k \in 1..Len(e) : IsErrorEvent(e[k]) => (Len(e) = 1 /\ stpc[st] = "ended")
    /\ \A k \in 1..(Len(e) - 1) :
         /\ ~IsTerminalEvent(e[k])
         /\ ~IsErrorEvent(e[k + 1]) =>
              (e[k].status # e[k + 1].status \/ e[k].progress # e[k + 1].progress)
    /\ stpc[st] = "ended" =>
         /\ Len(e) > 0
         /\ IsErrorEvent(e[Len(e)]) \/ IsTerminalEvent(e[Len(e)])

C10_StreamEvents ==
    [][ \A st \in Streams :
          /\ StreamEventsOk(st)'
          /\ stpc[st] = "ended" => UNCHANGED <<events[st], stpc[st]>>
          /\ (Len(events[st]) = 0 /\ stmodel[st] \notin DOMAIN download_states
                /\ StreamPoll(st)) =>
               (events'[st] = <<[error |-> ErrNotFound]>> /\ stpc'[st] = "ended")
      ]_vars

\* C10 witness: a stream has ended on a Failed event after at least two others.
C10_Witness ==
    \E st \in Streams :
        /\ stpc[st] = "ended"
        /\ Len(events[st]) >= 3
        /\ IsTerminalEvent(events[st][Len(events[st])])
        /\ events[st][Len(events[st])].status = "failed"

\* The integer quotient in ProgressPercent is exact: no stored or pending
\* estimate of the total exceeds the bytes counted with it.
TotalNeverAboveDownloaded ==
    /\ \A m \in DOMAIN download_states :
         download_states[m]["total_size"] <= download_states[m]["downloaded_size"]
    /\ \A w \in DlWorkers : \A f \in DOMAIN dfiles[w] :
         dfiles[w][f].total_size <= dfiles[w][f].total_downloaded

\* ------------------------------------------------- fair status streams
\* Fair scheduling of the download side: a started download thread takes its next
\* step, every call into the fetcher returns or raises, and the event loop resumes
\* a sleeping generator.
DlWorkerStep(w) ==
    \/ DSyncBegin(w)
    \/ \E f \in 1..MaxFiles : DUpdateWrite(w, f)
    \/ DFetchReturn(w)
    \/ DFetchRaise(w)
    \/ DSyncExcept(w)

FairStream ==
    /\ \A w \in DlWorkers : WF_vars(DlWorkerStep(w))
    /\ \A st \in Streams : WF_vars(StreamPoll(st))

FairSpecStream == Init /\ [][NextStream]_vars /\ FairStream

\* C11: under fair scheduling every opened status stream eventually ends.
C11_StreamTerminates ==
    \A st \in Streams : (stpc[st] = "poll") ~> (stpc[st] = "ended")

\* C12: a background thread that ends on a failure leaves its entry Failed with an
\* error message: a transcription thread leaving through its handler, a download
\* thread leaving before the fetch started or through its handler.
C12_FailuresCaptured ==
    [][ /\ \A t \in TaskIds :
             (wpc[t] = "except" /\ wpc'[t] = "done") =>
                 /\ tasks'[t]["status"] = "failed"
                 /\ Get(tasks'[t], "error", NoneVal) # NoneVal
        /\ \A w \in DlWorkers :
             (dpc[w] \in {"start", "except"} /\ dpc'[w] = "done") =>
                 /\ download_states'[dmodel[w]]["status"] = "failed"
                 /\ Get(download_states'[dmodel[w]], "error", NoneVal) # NoneVal
      ]_vars

\* C13: generate is called at most twice per task; a second call happens exactly
\* when the first raised TypeError and carried return_stamp, and its kwargs are the
\* first call's without return_stamp; a TypeError from the second call, or from a
\* first call that did not carry return_stamp, leaves the task Failed.
C13_RetryOnce ==
    \A t \in TaskIds :
        LET c == calls[t] IN
        /\ Len(c) <= 2
        /\ Len(c) = 2 =>
             /\ c[1].outcome = "TypeError"
             /\ "return_stamp" \in DOMAIN c[1].kwargs
             /\ c[2].kwargs = Pop(c[1].kwargs, "return_stamp")
        /\ (wpc[t] = "done" /\ Len(c) >= 1) =>
             /\ (c[1].outcome = "TypeError" /\ "return_stamp" \in DOMAIN c[1].kwargs)
                  => Len(c) = 2
             /\ (c[Len(c)].outcome = "TypeError"
                   /\ (Len(c) = 2 \/ "return_stamp" \notin DOMAIN c[1].kwargs)) =>
                  /\ tasks[t]["status"] = "failed"
                  /\ tasks[t]["error"] = ErrTypeError

\* C13 witness: a task whose retry was rejected too has ended Failed.
C13_Witness ==
    \E t \in TaskIds :
        /\ wpc[t] = "done"
        /\ Len(calls[t]) = 2
        /\ calls[t][2].outcome = "TypeError"
        /\ tasks[t]["status"] = "failed"

\* C14: whenever no initialize call is running, both handles and the model id
\* belong to one model (or none is set): no call leaves a mix behind.
C14_InitializeAtomic ==
    (\A i \in InitRequests : ipc[i] = "idle") =>
        (model = model_id /\ model_without_spk = model_id)

\* The handle the flag selects.
SelectedHandle(opts) == IF WithoutSpk(opts) THEN model_without_spk ELSE model

\* C15: the lookup fails exactly when the handle selected by the flag is absent and
\* otherwise yields that handle; a submission whose handle is absent is rejected,
\* creates no task entry and starts no thread.
C15_EnsureLoaded ==
    [][ /\ \A s \in SubmitRequests :
             (spc[s] = "lookup" /\ spc'[s] # "lookup") =>
                 IF SelectedHandle(spayload[s]) = NoneVal
                 THEN /\ spc'[s] = "idle"
                      /\ response' = [op |-> "transcribe", code |-> 500]
                      /\ UNCHANGED <<tasks, wpc>>
                 ELSE spc'[s] = "create"
        /\ \A t \in TaskIds :
             (wpc[t] = "lookup" /\ wpc'[t] # "lookup") =>
                 IF SelectedHandle(wpayload[t]) = NoneVal
                 THEN /\ wpc'[t] = "except"
                      /\ wexc'[t] \in {ErrNotInitialized, ErrNotInitializedNoSpk}
                 ELSE /\ wpc'[t] = "generate"
                      /\ wmodel'[t] = SelectedHandle(wpayload[t])
      ]_vars

\* C15 witness: a submission without speakers was rejected while the speaker-aware
\* handle was loaded.
C15_Witness ==
    /\ response = [op |-> "transcribe", code |-> 500]
    /\ model # NoneVal
    /\ model_without_spk = NoneVal
    /\ tasks = EmptyDict

\* C16: get_task answers 404 exactly for the ids no accepted submission returned;
\* every id in the task map was returned by the submission that stored it, entries
\* are never removed, and get_task leaves the task map alone.
C16_GetTask ==
    [][ /\ DOMAIN tasks \subseteq DOMAIN tasks'
        /\ \A id \in DOMAIN tasks' \ DOMAIN tasks :
             response' = [op |-> "transcribe", code |-> 200, task_id |-> id,
                          status |-> "queued"]
        /\ (response'.op = "transcribe" /\ response'.code = 200 /\ response' # response)
              => response'.task_id \in DOMAIN tasks'
        /\ \A id \in TaskIds \cup {UnknownTaskId} :
             (response'.op = "get_task" /\ response'.task_id = id /\ GetTask(id)) =>
                 /\ tasks' = tasks
                 /\ response'.code = (IF id \in DOMAIN tasks THEN 200 ELSE 404)
      ]_vars

\* C16 witness: an unknown id was answered 404 while the map holds a finished task.
C16_Witness ==
    /\ response.op = "get_task"
    /\ response.code = 404
    /\ response.task_id \notin DOMAIN tasks
    /\ \E t \in DOMAIN tasks : tasks[t]["status"] \in TerminalStatuses

\* C17: a submission never waits for an operation in flight: while a model load of
\* initialize or another task's generate call is running, an arriving /transcribe
\* request can enter its handler body.
C17_SubmitNonBlocking ==
    \A s \in SubmitRequests :
        (/\ spc[s] = "idle"
         /\ Cardinality(DOMAIN tasks) < MaxTasks
         /\ \/ \E i \in InitRequests : ipc[i] \in {"load1", "load2"}
            \/ \E t \in TaskIds : wpc[t] \in {"generate", "retry"})
        => ENABLED (\E opts \in OptionPayloads : SubmitAcquire(s, opts))

\* ------------------------------------------------ claims on the extractor
Returned == extracted.pc = "returned"
Called == extracted.pc \in {"returned", "raised"}

\* C18: the extractor is total: on every result record the call returns a list
\* and raises nothing.
C18_ExtractTotal == Called => (Returned /\ extracted.exc = NoneVal)

\* A valid sentence_info entry: a record with text that is non-empty once trimmed
\* and with start and end given.
ValidSentence(e) ==
    /\ IsDict(e)
    /\ "text" \in DOMAIN e.dict /\ DOMAIN e.dict["text"] = {"str"}
    /\ Len(Strip(e.dict["text"].str)) > 0
    /\ "start" \in DOMAIN e.dict /\ IsNum(e.dict["start"])
    /\ "end" \in DOMAIN e.dict /\ IsNum(e.dict["end"])

\* The segment a valid entry stands for: trimmed text, start and end in seconds.
SentenceSegment(e) ==
    [text |-> Strip(e.dict["text"].str),
     start_sec |-> [whole |-> e.dict["start"].num, milli |-> 0],
     end_sec |-> [whole |-> e.dict["end"].num, milli |-> 0]]

RECURSIVE ValidSentenceSegments(_)
ValidSentenceSegments(entries) ==
    IF Len(entries) = 0 THEN <<>>
    ELSE (IF ValidSentence(entries[1]) THEN <<SentenceSegment(entries[1])>> ELSE <<>>)
         \o ValidSentenceSegments(Tail(entries))

\* C19: for a sentence_info list with N >= 1 valid entries among any invalid ones,
\* the call returns exactly the N segments of the valid entries, in input order.
C19_SentenceInfoSegments ==
    (/\ Called
     /\ "sentence_info" \in DOMAIN res_item
     /\ IsList(res_item["sentence_info"])
     /\ Len(ValidSentenceSegments(res_item["sentence_info"].list)) >= 1)
    => /\ Returned
       /\ extracted.segments = ValidSentenceSegments(res_item["sentence_info"].list)

\* Seconds compared.
SecLeq(a, b) == a.whole < b.whole \/ (a.whole = b.whole /\ a.milli <= b.milli)

\* start <= end in every entry of a list field that gives both as numbers.
EntriesOrdered(v) ==
    LET items == IF IsList(v) THEN v.list
                 ELSE IF DOMAIN v = {"json"} /\ IsList(v.json) THEN v.json.list
                 ELSE <<>>
    IN  \A k \in 1..Len(items) :
            (/\ IsDict(items[k])
             /\ "start" \in DOMAIN items[k].dict /\ IsNum(items[k].dict["start"])
             /\ "end" \in DOMAIN items[k].dict /\ IsNum(items[k].dict["end"]))
            => items[k].dict["start"].num <= items[k].dict["end"].num

\* The record's own spans satisfy start <= end (the word spans drawn always do).
SpansOrdered(record) ==
    /\ EntriesOrdered(DictGet(record, "sentence_info"))
    /\ EntriesOrdered(DictGet(record, "stamp_sents"))

\* C20: every segment returned for a record whose spans satisfy start <= end has
\* text that is non-empty once trimmed and start_sec <= end_sec.
C20_SegmentsWellFormed ==
    (Returned /\ SpansOrdered(res_item)) =>
        \A k \in 1..Len(extracted.segments) :
            /\ Len(Strip(extracted.segments[k].text)) > 0
            /\ SecLeq(extracted.segments[k].start_sec, extracted.segments[k].end_sec)

\* The list the stamp_sents field holds, given directly or as JSON text.
StampList(record) ==
    LET v == DictGet(record, "stamp_sents") IN
    IF IsList(v) THEN v.list
    ELSE IF DOMAIN v = {"json"} /\ IsList(v.json) THEN v.json.list
    ELSE <<>>

\* A stamp_sents entry with non-null start and end.
ValidStamp(e) ==
    /\ IsDict(e)
    /\ "start" \in DOMAIN e.dict /\ IsNum(e.dict["start"])
    /\ "end" \in DOMAIN e.dict /\ IsNum(e.dict["end"])

\* A text field of an entry, missing or null read as the empty text.
EntryText(e, key) ==
    IF key \in DOMAIN e.dict /\ DOMAIN e.dict[key] = {"str"} THEN e.dict[key].str ELSE <<>>

\* The segment such an entry stands for: trim(textSeg + punc), milliseconds
\* divided by 1000.
StampSegment(e) ==
    [text |-> Strip(EntryText(e, "text_seg") \o EntryText(e, "punc")),
     start_sec |-> [whole |-> e.dict["start"].num \div 1000,
                    milli |-> e.dict["start"].num % 1000],
     end_sec |-> [whole |-> e.dict["end"].num \div 1000,
                  milli |-> e.dict["end"].num % 1000]]

RECURSIVE ValidStampSegments(_)
ValidStampSegments(entries) ==
    IF Len(entries) = 0 THEN <<>>
    ELSE (IF ValidStamp(entries[1]) THEN <<StampSegment(entries[1])>> ELSE <<>>)
         \o ValidStampSegments(Tail(entries))

\* The sentence_info tier returned nothing and raised nothing.
SentenceInfoSilent(record) ==
    LET v == DictGet(record, "sentence_info") IN
    ~IsList(v) \/ \A k \in 1..Len(v.list) : ~ValidSentence(v.list[k]) /\
        (IsDict(v.list[k]) =>
            ("text" \notin DOMAIN v.list[k].dict \/ DOMAIN v.list[k].dict["text"] = {"str"}))

\* C21: when the stamp_sents tier is used (no sentence_info segment, at least one
\* stamp_sents entry with start and end), the call returns one segment per entry
\* with non-null start and end, in input order, with text trim(textSeg + punc)
\* and start/end in seconds (milliseconds / 1000); the other entries are skipped.
C21_StampSentsSegments ==
    (/\ Called
     /\ SentenceInfoSilent(res_item)
     /\ Len(ValidStampSegments(StampList(res_item))) >= 1)
    => /\ Returned
       /\ extracted.segments = ValidStampSegments(StampList(res_item))

\* Spans [1000,2000] and [2500,4000] came back as [1.0,2.0] and [2.5,4.0].
C21_Witness ==
    /\ Returned
    /\ Len(StampList(res_item)) = 2
    /\ Len(extracted.segments) = 2
    /\ extracted.segments[1].start_sec = [whole |-> 1, milli |-> 0]
    /\ extracted.segments[1].end_sec = [whole |-> 2, milli |-> 0]
    /\ extracted.segments[2].start_sec = [whole |-> 2, milli |-> 500]
    /\ extracted.segments[2].end_sec = [whole |-> 4, milli |-> 0]
    /\ extracted.segments[1].text = <<"a", ".">>

\* A skipped entry beside an emitted one.
C21_WitnessSkip ==
    /\ Returned
    /\ Len(StampList(res_item)) = 2
    /\ Len(ValidStampSegments(StampList(res_item))) = 1
    /\ Len(extracted.segments) = 1

\* What each tier stands for on a record: the segments of the valid sentence_info
\* entries, those of the stamp_sents entries with start and end, and the segments
\* made from text and timestamp.
SentenceInfoOutput(record) ==
    LET v == DictGet(record, "sentence_info") IN
    IF IsList(v) THEN ValidSentenceSegments(v.list) ELSE <<>>

StampSentsOutput(record) == ValidStampSegments(StampList(record))

FirstTierOutput(record) ==
    IF Len(SentenceInfoOutput(record)) > 0 THEN SentenceInfoOutput(record)
    ELSE IF Len(StampSentsOutput(record)) > 0 THEN StampSentsOutput(record)
    ELSE TextTimestampTier(record)

\* Text that is non-empty once trimmed, and no timestamp: the field is missing,
\* null, or text that is no JSON.
TextWithoutTimestamp(record) ==
    /\ "text" \in DOMAIN record /\ DOMAIN record["text"] = {"str"}
    /\ Len(Strip(record["text"].str)) > 0
    /\ DictGet(record, "timestamp") \in {PyNone, PyBadJson}

\* C22: the call returns exactly the output of the first tier, in the order
\* sentence_info, stamp_sents, text+timestamp, that produces a segment (never
\* segments of two tiers), the empty list when no tier produces one, and, for
\* non-empty text without timestamp when no higher tier produces a segment,
\* exactly one segment with start_sec = end_sec = 0.
C22_FirstTierWins ==
    Called =>
        /\ Returned
        /\ extracted.segments = FirstTierOutput(res_item)
        /\ (/\ TextWithoutTimestamp(res_item)
            /\ Len(SentenceInfoOutput(res_item)) = 0
            /\ Len(StampSentsOutput(res_item)) = 0)
           => /\ Len(extracted.segments) = 1
              /\ extracted.segments[1].start_sec = [whole |-> 0, milli |-> 0]
              /\ extracted.segments[1].end_sec = [whole |-> 0, milli |-> 0]

\* ----------------------------------------------------- claims on the mapper
MapReturned == mapped.pc = "returned"
MapCalled == mapped.pc \in {"returned", "raised"}

\* Group i (1-based) of n words shared out over k sentences: floor(n/k) words
\* and one more for each of the first n mod k groups; the groups follow one
\* another from the first word on.
GroupSize(n, k, i) == (n \div k) + (IF i <= n % k THEN 1 ELSE 0)

RECURSIVE GroupFirst(_, _, _)
GroupFirst(n, k, i) ==
    IF i = 1 THEN 1 ELSE GroupFirst(n, k, i - 1) + GroupSize(n, k, i - 1)

GroupLast(n, k, i) == GroupFirst(n, k, i) + GroupSize(n, k, i) - 1

\* Milliseconds as seconds.
MsToSec(ms) == [whole |-> ms \div 1000, milli |-> ms % 1000]

\* C23: for k >= 1 sentences and n >= k word spans the mapper returns exactly k
\* segments in sentence order; the word groups are contiguous, disjoint, cover
\* all n spans in order and have floor(n/k) words plus one for each of the first
\* n mod k sentences; segment i runs from the start of its group's first word to
\* the end of its group's last word.
C23_MapProportional ==
    LET k == Len(map_args.sentences)
        n == Len(map_args.timestamps)
    IN  (MapCalled /\ k >= 1 /\ n >= k) =>
            /\ MapReturned
            /\ Len(mapped.segments) = k
            /\ GroupLast(n, k, k) = n
            /\ \A i \in 1..k :
                  /\ mapped.segments[i].text = map_args.sentences[i]
                  /\ mapped.segments[i].start_sec =
                         MsToSec(map_args.timestamps[GroupFirst(n, k, i)][1])
                  /\ mapped.segments[i].end_sec =
                         MsToSec(map_args.timestamps[GroupLast(n, k, i)][2])

\* 3 sentences over 5 words: 2, 2 and 1 words.
C23_Witness ==
    /\ MapReturned
    /\ Len(map_args.sentences) = 3
    /\ Len(map_args.timestamps) = 5
    /\ Len(mapped.segments) = 3
    /\ mapped.segments[1].end_sec = MsToSec(map_args.timestamps[2][2])
    /\ mapped.segments[2].end_sec = MsToSec(map_args.timestamps[4][2])
    /\ mapped.segments[3].start_sec = MsToSec(map_args.timestamps[5][1])

\* C24: for k sentences and n < k word spans (n >= 1) the mapper returns exactly
\* n segments: segment i has the text of sentence i and the span of word i; the
\* sentences after the n-th do not appear.
C24_MapOneEach ==
    LET k == Len(map_args.sentences)
        n == Len(map_args.timestamps)
    IN  (MapCalled /\ n >= 1 /\ n < k) =>
            /\ MapReturned
            /\ Len(mapped.segments) = n
            /\ \A i \in 1..n :
                  mapped.segments[i] =
                      [text |-> map_args.sentences[i],
                       start_sec |-> MsToSec(map_args.timestamps[i][1]),
                       end_sec |-> MsToSec(map_args.timestamps[i][2])]

\* Three sentences over two words: the third sentence is dropped.
C24_Witness ==
    /\ MapReturned
    /\ Len(map_args.sentences) = 3
    /\ Len(map_args.timestamps) = 2
    /\ Len(mapped.segments) = 2
    /\ map_args.sentences[3] # map_args.sentences[1]
    /\ map_args.sentences[3] # map_args.sentences[2]
    /\ \A i \in 1..2 : mapped.segments[i].text # map_args.sentences[3]

\* --------------------------------------------------- claims on the splitter
\* The fragments between sentence-final marks, trimmed, the empty ones dropped,
\* each followed by the mark that ends it in the text; the last piece has none.
RECURSIVE MarkedFragments(_)
MarkedFragments(text) ==
    LET marks == {p \in 1..Len(text) : text[p] \in SentencePunctuation} IN
    IF marks = {}
    THEN (IF Len(Strip(text)) > 0 THEN <<Strip(text)>> ELSE <<>>)
    ELSE LET p == CHOOSE m \in marks : \A q \in marks : m <= q
             fragment == Strip(SubSeq(text, 1, p - 1))
         IN  (IF Len(fragment) > 0 THEN <<Append(fragment, text[p])>> ELSE <<>>)
             \o MarkedFragments(SubSeq(text, p + 1, Len(text)))

\* C25: for every text the splitter returns the non-empty fragments between
\* sentence-final marks in their order, each fragment that a mark ends carrying
\* that very mark (the one following this occurrence of the fragment), also when
\* a fragment occurs more than once with different marks; with no non-empty
\* fragment the result is the whole text alone.
C25_SplitReattaches ==
    split_out.pc = "returned" =>
        split_out.result =
            IF Len(MarkedFragments(split_arg)) > 0
            THEN MarkedFragments(split_arg) ELSE <<split_arg>>

\* --------------------------------------------------- claims on the model lock
\* The threads inside a section the lock guards: an initialize at one of its
\* loads, a transcribe request or a worker at its lookup.
InLockedSection ==
    {InitThread(i) : i \in {j \in InitRequests : ipc[j] \in {"load1", "load2"}}}
    \cup {SubmitThread(s) : s \in {r \in SubmitRequests : spc[r] = "lookup"}}
    \cup {WorkerThread(t) : t \in {u \in TaskIds : wpc[u] = "lookup"}}

\* C26: the model lock gives mutual exclusion over loading and lookup and is not
\* held during recognition: never two threads inside a guarded section, every
\* thread inside one holds the lock, no lookup runs while an initialize is
\* between its first and its second load, and a worker that is calling generate
\* does not hold the lock.
C26_LockExclusion ==
    /\ Cardinality(InLockedSection) <= 1
    /\ model_lock = InLockedSection
    /\ (\E i \in InitRequests : ipc[i] = "load2")
       => /\ \A s \in SubmitRequests : spc[s] # "lookup"
          /\ \A t \in TaskIds : wpc[t] # "lookup"
    /\ \A t \in TaskIds :
          wpc[t] \in {"generate", "retry"} => WorkerThread(t) \notin model_lock

\* An initialize between its two loads while a worker waits for the lock.
C26_Witness ==
    \E i \in InitRequests, t \in TaskIds :
        /\ ipc[i] = "load2"
        /\ wpc[t] = "lock"
        /\ model_lock = {InitThread(i)}

\* ---------------------------------------------- claims on concurrent downloads
\* The threads of _run_model_download that have been started for model m and
\* have not returned.
RunningWorkers(m) == {w \in DlWorkers : dmodel[w] = m /\ dpc[w] \notin {"none", "done"}}

\* C27: at every moment at most one fetch worker is running for a model
\* identifier, whatever the sequence of submit and cancel calls.
C27_OneWorkerPerModel ==
    \A m \in DownloadIds : Cardinality(RunningWorkers(m)) <= 1

\* C28: when the callbacks of the files of one job run concurrently no increment
\* is lost: whenever all callbacks have returned, downloaded_size is the sum of
\* the increments reported by every file.
C28_NoLostIncrement ==
    \A w \in DlWorkers :
        (dpc[w] = "fetching" /\ ~CallbackActive(w)) =>
            download_states[dmodel[w]]["downloaded_size"] = SumDownloaded(dfiles[w])

\* ------------------------------------------------ claims on the task metadata
\* C29: the model identifier in a completed task's metadata is the identifier of
\* the model whose handle produced the task's result, also when an initialize
\* for another model completes between the worker's lookup and its store.  Only
\* stores made while both handles and model_id name one model are looked at, so
\* that a load that failed halfway (C14) plays no part.
C29_MetadataNamesModel ==
    [][ \A t \in TaskIds :
          (/\ wpc[t] = "store" /\ wpc'[t] = "done"
           /\ model = model_id /\ model_without_spk = model_id)
          => /\ tasks'[t]["status"] = "completed"
             /\ tasks'[t]["metadata"].model = tasks'[t]["result"]
      ]_vars

====
